---- MODULE Spec2Model ----
(***************************************************************************)
(* FLY-EVAL++ evaluation pipeline: the verifier graph, the evaluator agent *)
(* (checklist, adjudication, attribution), the deterministic rubric fusion *)
(* and the per-sample driver of fly_eval_plus_plus.                        *)
(*                                                                         *)
(* Numbers are integers in the unit of their field (ft, kt, fpm, deg).     *)
(* A JSON value is a record [k, n]: k is its kind and n its number.        *)
(***************************************************************************)
EXTENDS Integers, Sequences, FiniteSets, TLC

VARIABLES
    evidence_counter,       \* Verifier.evidence_counter, one per verifier of the graph
    previous_predictions,   \* FLYEvalPlusPlus.previous_predictions: model -> field -> value
    last,                   \* outcome of the latest evaluate_sample call
    prev,                   \* outcome of the evaluate_sample call before it
    n_samples,              \* samples the run driver has taken from its input
    n_records,              \* records the run driver has appended to model_records
    v2_counter,             \* evidence_counter of a SafetyConstraintCheckerV2 instance
    v2_evidence,            \* what its latest verify() returned
    _cache,                 \* LLMJudge._cache: cache key -> JudgeOutput
    judge_first,            \* cache key -> what the first judge() call with that key did
    judge_last,             \* what the latest judge() call did
    n_judged,               \* judge() calls made on the LLMJudge
    call                    \* the latest direct call of a function: name, arguments, result

judge_vars == <<_cache, judge_first, judge_last, n_judged>>

vars == <<evidence_counter, previous_predictions, last, prev, n_samples, n_records,
          v2_counter, v2_evidence, _cache, judge_first, judge_last, n_judged, call>>

-----------------------------------------------------------------------------
(* Bounds of the model *)

MaxSamples == 2
ArrLen == 3
MaxV2Ids == 4
MaxJudged == 3
MaxPassing == 10

-----------------------------------------------------------------------------
(* JSON values *)

Num(x) == [k |-> "num", n |-> x]
NaN == [k |-> "nan", n |-> 0]
Inf == [k |-> "inf", n |-> 0]
Null == [k |-> "none", n |-> 0]
Str == [k |-> "str", n |-> 0]
BigInt == [k |-> "big", n |-> 0]

\* float(v): "fin" a finite float, "nan", "inf", "verr" a ValueError or TypeError,
\* "overflow" an OverflowError (an int too large to convert to float).
FloatKind(v) ==
    CASE v.k = "num" -> "fin"
      [] v.k = "nan" -> "nan"
      [] v.k = "inf" -> "inf"
      [] v.k = "big" -> "overflow"
      [] OTHER -> "verr"

Abs(x) == IF x < 0 THEN -x ELSE x
Min2(a, b) == IF a < b THEN a ELSE b
Max2(a, b) == IF a > b THEN a ELSE b

\* abs(float(a) - float(b)) for two values float() accepts: a float [c, n].
AbsDiff(a, b) ==
    IF a.k = "nan" \/ b.k = "nan" THEN [c |-> "nan", n |-> 0]
    ELSE IF a.k = "inf" /\ b.k = "inf" THEN [c |-> "nan", n |-> 0]
    ELSE IF a.k = "inf" \/ b.k = "inf" THEN [c |-> "inf", n |-> 0]
    ELSE [c |-> "fin", n |-> Abs(a.n - b.n)]

\* d > t for a non-negative float d and a finite t (false for NaN).
Exceeds(d, t) ==
    CASE d.c = "nan" -> FALSE
      [] d.c = "inf" -> TRUE
      [] OTHER -> d.n > t

\* float(v) < t and float(v) > t for a value float() accepts and a finite t.
Below(v, t) == v.k = "num" /\ v.n < t
Above(v, t) == v.k = "inf" \/ (v.k = "num" /\ v.n > t)

-----------------------------------------------------------------------------
(* The schema *)

Latitude == "Latitude (WGS84 deg)"
Longitude == "Longitude (WGS84 deg)"
GPSAltitude == "GPS Altitude (WGS84 ft)"
GroundTrack == "GPS Ground Track (deg true)"
MagneticHeading == "Magnetic Heading (deg)"
VelocityE == "GPS Velocity E (m/s)"
VelocityN == "GPS Velocity N (m/s)"
VelocityU == "GPS Velocity U (m/s)"
GroundSpeed == "GPS Ground Speed (kt)"
Roll == "Roll (deg)"
Pitch == "Pitch (deg)"
TurnRate == "Turn Rate (deg/sec)"
SlipSkid == "Slip/Skid"
NormalAcceleration == "Normal Acceleration (G)"
LateralAcceleration == "Lateral Acceleration (G)"
VerticalSpeed == "Vertical Speed (fpm)"
IndicatedAirspeed == "Indicated Airspeed (kt)"
BaroAltitude == "Baro Altitude (ft)"
PressureAltitude == "Pressure Altitude (ft)"

required_fields ==
    << Latitude, Longitude, GPSAltitude, GroundTrack, MagneticHeading,
       VelocityE, VelocityN, VelocityU, GroundSpeed, Roll, Pitch, TurnRate,
       SlipSkid, NormalAcceleration, LateralAcceleration, VerticalSpeed,
       IndicatedAirspeed, BaroAltitude, PressureAltitude >>

Fields == {required_fields[i] : i \in 1..Len(required_fields)}

angle_fields == {GroundTrack, MagneticHeading}

\* FIELD_LIMITS as load_field_limits() returns it: field -> <<lower, upper>>.
field_limits ==
    [f \in {Latitude, Longitude, GPSAltitude} |->
        CASE f = Latitude -> <<-90, 90>>
          [] f = Longitude -> <<-180, 180>>
          [] OTHER -> <<0, 10000>>]

\* JUMP_THRESHOLDS as load_jump_thresholds() returns it: field -> threshold.
jump_thresholds ==
    [f \in {GPSAltitude, GroundTrack} |->
        IF f = GPSAltitude THEN 200 ELSE 30]

-----------------------------------------------------------------------------
(* A field map: field -> [present, list, vals].  A scalar has list = FALSE   *)
(* and one value; an absent key has present = FALSE.                         *)

Absent == [present |-> FALSE, list |-> FALSE, vals |-> <<>>]
Scalar(v) == [present |-> TRUE, list |-> FALSE, vals |-> <<v>>]
List(vs) == [present |-> TRUE, list |-> TRUE, vals |-> vs]

\* dict.get(key): None for an absent key and for a null value.
IsNone(e) == ~e.present \/ (~e.list /\ e.vals[1].k = "none")

\* _normalize_to_list(value)
_normalize_to_list(e) == IF IsNone(e) THEN <<>> ELSE e.vals

RECURSIVE Flatten(_)
Flatten(ss) == IF ss = <<>> THEN <<>> ELSE Head(ss) \o Flatten(Tail(ss))

-----------------------------------------------------------------------------
(* Evidence.  A verifier's run is a sequence of events in program order:     *)
(* "atom" (an EvidenceAtom appended, after _generate_evidence_id), "burn"    *)
(* (an ID was generated and the atom's construction raised a caught error)   *)
(* and "raise" (an error leaves verify()).                                    *)

Zero == [c |-> "fin", n |-> 0]

Atom(type, field, idx, pass, severity, scope, m) ==
    [ev |-> "atom", type |-> type, field |-> field, idx |-> idx, pass_ |-> pass,
     severity |-> severity, scope |-> scope, m |-> m]
Burn == [ev |-> "burn", type |-> "", field |-> "", idx |-> -1, pass_ |-> FALSE,
         severity |-> "", scope |-> "", m |-> Zero]
Raise == [ev |-> "raise", type |-> "", field |-> "", idx |-> -1, pass_ |-> FALSE,
          severity |-> "", scope |-> "", m |-> Zero]
Stop == [ev |-> "stop", type |-> "", field |-> "", idx |-> -1, pass_ |-> FALSE,
         severity |-> "", scope |-> "", m |-> Zero]

\* One rule's try block: its events up to the first error; a ValueError or
\* TypeError ("stop") is swallowed by the rule's handler, any other error
\* ("raise") leaves verify().
RECURSIVE RuleCut(_)
RuleCut(es) ==
    IF es = <<>> THEN <<>>
    ELSE IF Head(es).ev = "stop" THEN <<>>
    ELSE IF Head(es).ev = "raise" THEN <<Head(es)>>
    ELSE <<Head(es)>> \o RuleCut(Tail(es))

\* float() applied to vs in order: Stop or Raise for the first value it rejects.
RECURSIVE FloatAll(_)
FloatAll(vs) ==
    IF vs = <<>> THEN <<>>
    ELSE CASE FloatKind(Head(vs)) = "verr" -> <<Stop>>
           [] FloatKind(Head(vs)) = "overflow" -> <<Raise>>
           [] OTHER -> FloatAll(Tail(vs))

\* abs(float(v)) > t for a value float() accepts (false for NaN).
AbsAbove(v, t) == v.k = "inf" \/ (v.k = "num" /\ Abs(v.n) > t)

-----------------------------------------------------------------------------
(* NumericValidityChecker *)

\* is_valid_numeric_value(value); float() of a too-large int raises OverflowError,
\* which the (ValueError, TypeError) handler does not catch.
is_valid_numeric_value(v) == v.k = "num"

\* A variant that grades a value that is no valid number as a warning.
NumericValueEventWarning(field, idx, v) ==
    IF FloatKind(v) = "overflow" THEN Raise
    ELSE IF is_valid_numeric_value(v)
         THEN Atom("numeric_validity", field, idx, TRUE, "info", "field", Zero)
         ELSE Atom("numeric_validity", field, idx, FALSE, "warning", "field", Zero)

NumericValueEvent(field, idx, v) ==
    IF FloatKind(v) = "overflow" THEN Raise
    ELSE IF is_valid_numeric_value(v)
         THEN Atom("numeric_validity", field, idx, TRUE, "info", "field", Zero)
         ELSE Atom("numeric_validity", field, idx, FALSE, "critical", "field", Zero)

NumericFieldEvents(field, e) ==
    IF ~e.present
    THEN <<Atom("numeric_validity", field, -1, FALSE, "critical", "field", Zero)>>
    ELSE IF e.list
         THEN [i \in 1..Len(e.vals) |-> NumericValueEvent(field, i - 1, e.vals[i])]
         ELSE <<NumericValueEvent(field, -1, e.vals[1])>>

\* NumericValidityChecker.verify on a dict json_data
NumericValidityVerify(fm) ==
    Flatten([i \in 1..Len(required_fields) |->
                NumericFieldEvents(required_fields[i], fm[required_fields[i]])])

-----------------------------------------------------------------------------
(* RangeSanityChecker *)

\* check_range_validity on one element: "ok", "bad" (out of range or not
\* convertible) or "overflow".
RangeValue(field, v) ==
    LET lo == field_limits[field][1]
        hi == field_limits[field][2]
    IN  CASE v.k = "none" -> "ok"
          [] v.k = "big" -> "overflow"
          [] v.k = "str" -> "bad"
          [] v.k = "nan" -> "ok"
          [] v.k = "inf" -> "bad"
          [] OTHER -> IF v.n < lo \/ v.n > hi THEN "bad" ELSE "ok"

\* The first element that is not "ok", 0 if all are.
RECURSIVE FirstNotOk(_, _, _)
FirstNotOk(field, vals, i) ==
    IF i > Len(vals) THEN 0
    ELSE IF RangeValue(field, vals[i]) # "ok" THEN i
    ELSE FirstNotOk(field, vals, i + 1)

\* check_range_validity(field, value): "ok", "bad" or "overflow"
check_range_validity(field, e) ==
    IF field \notin DOMAIN field_limits THEN "ok"
    ELSE LET i == FirstNotOk(field, e.vals, 1)
         IN  IF i = 0 THEN "ok" ELSE RangeValue(field, e.vals[i])

\* The severity verify() computes for an invalid value: from value[0] for a list.
RangeSeverity(field, e) ==
    LET lo == field_limits[field][1]
        hi == field_limits[field][2]
        v == e.vals[1]
        deviation2 ==   \* 2 * deviation * (upper - lower)
            IF v.n < lo THEN 2 * Abs(v.n - lo)
            ELSE IF v.n > hi THEN 2 * Abs(v.n - hi)
            ELSE 0
    IN  CASE v.k = "num" ->
                IF hi - lo > 0
                THEN (IF deviation2 > hi - lo THEN "critical" ELSE "warning")
                ELSE (IF v.n < lo \/ v.n > hi THEN "critical" ELSE "warning")
          [] v.k = "nan" -> "warning"
          [] v.k = "inf" -> "critical"
          [] OTHER -> "critical"

\* A variant that skips a value Numeric-Validity has failed.
RangeFieldEventsGated(field, e) ==
    IF ~e.present THEN <<>>
    ELSE IF ~e.list /\ e.vals[1].k \in {"str", "nan", "inf", "none"} THEN <<>>
    ELSE LET r == check_range_validity(field, e)
         IN  CASE r = "overflow" -> <<Raise>>
               [] r = "bad" ->
                    IF e.vals[1].k = "big" THEN <<Raise>>
                    ELSE <<Atom("range_sanity", field, -1, FALSE,
                                RangeSeverity(field, e), "field", Zero)>>
               [] OTHER -> <<Atom("range_sanity", field, -1, TRUE, "info", "field", Zero)>>

\* The body of verify()'s loop for one required field.
RangeFieldEvents(field, e) ==
    IF ~e.present THEN <<>>
    ELSE LET r == check_range_validity(field, e)
         IN  CASE r = "overflow" -> <<Raise>>
               [] r = "bad" ->
                    IF e.vals[1].k = "big" THEN <<Raise>>
                    ELSE <<Atom("range_sanity", field, -1, FALSE,
                                RangeSeverity(field, e), "field", Zero)>>
               [] OTHER -> <<Atom("range_sanity", field, -1, TRUE, "info", "field", Zero)>>

\* RangeSanityChecker.verify on a dict json_data
RangeSanityVerify(fm) ==
    Flatten([i \in 1..Len(required_fields) |->
                RangeFieldEvents(required_fields[i], fm[required_fields[i]])])

-----------------------------------------------------------------------------
(* JumpDynamicsChecker *)

\* angle_difference on the float abs(pred - actual); 360 - inf is -inf.
angle_difference(d) ==
    CASE d.c = "nan" -> d
      [] d.c = "inf" -> [c |-> "ninf", n |-> 0]
      [] OTHER -> IF d.n > 180 THEN [c |-> "fin", n |-> 360 - d.n] ELSE d

\* The change between two values float() accepts.
Change(field, a, b) ==
    IF field \in angle_fields THEN angle_difference(AbsDiff(a, b)) ELSE AbsDiff(a, b)

\* change > threshold
JumpExceeds(d, t) == d.c = "inf" \/ (d.c = "fin" /\ d.n > t)

\* max(max_change, change): Python keeps max_change unless change > max_change.
PyMax(mc, d) ==
    CASE d.c = "inf" -> d
      [] d.c = "fin" /\ mc.c = "fin" /\ d.n > mc.n -> d
      [] OTHER -> mc

\* check_mutation, M3 branch: the loop over adjacent elements from index i on.
RECURSIVE M3Loop(_, _, _, _)
M3Loop(field, vals, i, mc) ==
    IF i > Len(vals) THEN [valid |-> TRUE, change |-> mc]
    ELSE LET a == vals[i - 1]
             b == vals[i]
         IN  IF FloatKind(a) = "overflow" THEN [valid |-> TRUE, change |-> Zero]
             ELSE IF FloatKind(a) = "verr" THEN M3Loop(field, vals, i + 1, mc)
             ELSE IF FloatKind(b) = "overflow" THEN [valid |-> TRUE, change |-> Zero]
             ELSE IF FloatKind(b) = "verr" THEN M3Loop(field, vals, i + 1, mc)
             ELSE LET d == Change(field, b, a)
                  IN  IF JumpExceeds(d, jump_thresholds[field])
                      THEN [valid |-> FALSE, change |-> d]
                      ELSE M3Loop(field, vals, i + 1, PyMax(mc, d))

\* check_mutation(field, previous_value, current_value, task_type)
check_mutation(field, previous, current, task_type) ==
    IF field \notin DOMAIN jump_thresholds THEN [valid |-> TRUE, change |-> Zero]
    ELSE IF IsNone(previous) \/ IsNone(current) THEN [valid |-> TRUE, change |-> Zero]
    ELSE IF task_type = "M3" /\ current.list /\ Len(current.vals) > 1
         THEN M3Loop(field, current.vals, 2, Zero)
    ELSE IF previous.vals = <<>> \/ current.list
              \/ FloatKind(previous.vals[Len(previous.vals)]) \in {"verr", "overflow"}
              \/ FloatKind(current.vals[1]) \in {"verr", "overflow"}
         THEN [valid |-> TRUE, change |-> Zero]
    ELSE LET d == Change(field, current.vals[1], previous.vals[Len(previous.vals)])
         IN  [valid |-> ~JumpExceeds(d, jump_thresholds[field]), change |-> d]

\* A variant that grades a failed check as information only.
JumpSeverityInfo(field, change) == "info"

\* The severity verify() gives a failed check: violation_ratio > 2.0 is critical.
JumpSeverity(field, change) ==
    IF field \in DOMAIN jump_thresholds /\ jump_thresholds[field] > 0
       /\ JumpExceeds(change, 2 * jump_thresholds[field])
    THEN "critical" ELSE "warning"

\* A variant that checks a field whether or not there is a previous value.
JumpFieldEventsAlways(field, current, previous, task_type) ==
    IF ~current.present THEN <<>>
    ELSE LET r == check_mutation(field, previous, current, task_type)
         IN  IF ~r.valid
             THEN <<Atom("jump_dynamics", field, -1, FALSE,
                         JumpSeverity(field, r.change), "field", r.change)>>
             ELSE <<Atom("jump_dynamics", field, -1, TRUE, "info", "field", r.change)>>

\* The body of verify()'s loop for one required field.
JumpFieldEvents(field, current, previous, task_type) ==
    IF ~current.present THEN <<>>
    ELSE IF IsNone(previous) /\ task_type # "M3" THEN <<>>
    ELSE LET r == check_mutation(field, previous, current, task_type)
         IN  IF ~r.valid
             THEN <<Atom("jump_dynamics", field, -1, FALSE,
                         JumpSeverity(field, r.change), "field", r.change)>>
             ELSE <<Atom("jump_dynamics", field, -1, TRUE, "info", "field", r.change)>>

\* JumpDynamicsChecker.verify on a dict json_data; prev_pred is the model's entry
\* of previous_predictions.
JumpDynamicsVerify(fm, prev_pred, task_type) ==
    Flatten([i \in 1..Len(required_fields) |->
                JumpFieldEvents(required_fields[i], fm[required_fields[i]],
                                prev_pred[required_fields[i]], task_type)])

-----------------------------------------------------------------------------
(* CrossFieldConsistencyChecker *)

\* The atom a rule appends for one timestep: failures always, a pass only at
\* idx == 0.
StepAtom(type, field, idx, n, severity, scope) ==
    IF severity # "info" \/ idx = 0
    THEN <<Atom(type, field, IF n > 1 THEN idx ELSE -1, severity = "info", severity, scope, Zero)>>
    ELSE <<>>

\* zip(...) of normalised lists stops at the shortest.
ZipLen(ls) == IF ls = <<>> THEN 0
              ELSE LET lens == {Len(ls[i]) : i \in 1..Len(ls)}
                   IN  CHOOSE m \in lens : \A k \in lens : m <= k

\* A variant whose thresholds are inclusive.
AltitudeSeverityInclusive(gps, baro) ==
    LET diff == AbsDiff(gps, baro)
    IN  IF Exceeds(diff, 2999) THEN "critical"
        ELSE IF Exceeds(diff, 1999) THEN "warning"
        ELSE "info"

\* Rule 1: diff = abs(gps - baro); > 3000 critical, > 2000 warning.
AltitudeSeverity(gps, baro) ==
    LET diff == AbsDiff(gps, baro)
    IN  IF Exceeds(diff, 3000) THEN "critical"
        ELSE IF Exceeds(diff, 2000) THEN "warning"
        ELSE "info"

AltitudeRule(fm) ==
    LET gps == fm[GPSAltitude]
        baro == fm[BaroAltitude]
        gps_vals == _normalize_to_list(gps)
        baro_vals == _normalize_to_list(baro)
    IN  IF IsNone(gps) \/ IsNone(baro) THEN <<>>
        ELSE RuleCut(Flatten([i \in 1..ZipLen(<<gps_vals, baro_vals>>) |->
                LET fl == FloatAll(<<gps_vals[i], baro_vals[i]>>)
                IN  IF fl # <<>> THEN fl
                    ELSE StepAtom("cross_field_consistency", "GPS_Alt_vs_Baro_Alt", i - 1,
                                  Len(gps_vals), AltitudeSeverity(gps_vals[i], baro_vals[i]),
                                  "cross_field")]))

\* calculated_gs > x and calculated_gs < x for calculated_gs =
\* sqrt((1.944 ve)^2 + (1.944 vn)^2) with finite ve, vn; 1.944 = 243/125.
CalcGsAbove(ve, vn, x) == x < 0 \/ 59049 * (ve * ve + vn * vn) > 15625 * x * x
CalcGsBelow(ve, vn, x) == x > 0 /\ 59049 * (ve * ve + vn * vn) < 15625 * x * x

\* diff > t for diff = abs(gs - calculated_gs)
SpeedDiffExceeds(gs, ve, vn, t) ==
    IF gs.k = "nan" \/ ve.k = "nan" \/ vn.k = "nan" THEN FALSE
    ELSE IF gs.k = "inf" THEN ve.k # "inf" /\ vn.k # "inf"
    ELSE IF ve.k = "inf" \/ vn.k = "inf" THEN TRUE
    ELSE CalcGsAbove(ve.n, vn.n, gs.n + t) \/ CalcGsBelow(ve.n, vn.n, gs.n - t)

\* Rule 2: > 15 kt critical, > 5 kt warning.
SpeedSeverity(gs, ve, vn) ==
    IF SpeedDiffExceeds(gs, ve, vn, 15) THEN "critical"
    ELSE IF SpeedDiffExceeds(gs, ve, vn, 5) THEN "warning"
    ELSE "info"

SpeedRule(fm) ==
    LET gs == fm[GroundSpeed]
        ve == fm[VelocityE]
        vn == fm[VelocityN]
        gs_vals == _normalize_to_list(gs)
        ve_vals == _normalize_to_list(ve)
        vn_vals == _normalize_to_list(vn)
    IN  IF IsNone(gs) \/ IsNone(ve) \/ IsNone(vn) THEN <<>>
        ELSE RuleCut(Flatten([i \in 1..ZipLen(<<gs_vals, ve_vals, vn_vals>>) |->
                LET fl == FloatAll(<<gs_vals[i], ve_vals[i], vn_vals[i]>>)
                IN  IF fl # <<>> THEN fl
                    ELSE StepAtom("cross_field_consistency", "Ground_Speed_vs_Velocity", i - 1,
                                  Len(gs_vals), SpeedSeverity(gs_vals[i], ve_vals[i], vn_vals[i]),
                                  "cross_field")]))

\* math.degrees(math.atan2(ve, vn)) normalised to [0, 360), for finite velocities
\* on the eight compass directions (and 0 for the zero vector).
calculated_track(ve, vn) ==
    CASE ve = 0 /\ vn >= 0 -> 0
      [] ve > 0 /\ vn = ve -> 45
      [] ve > 0 /\ vn = 0 -> 90
      [] ve > 0 /\ vn = -ve -> 135
      [] ve = 0 /\ vn < 0 -> 180
      [] ve < 0 /\ vn = ve -> 225
      [] ve < 0 /\ vn = 0 -> 270
      [] ve < 0 /\ vn = -ve -> 315

\* diff > t for diff = the wrapped abs(track - calculated_track)
TrackDiffExceeds(track, ve, vn, t) ==
    IF track.k # "num" \/ ve.k = "nan" \/ vn.k = "nan" THEN FALSE
    ELSE LET calc == CASE ve.k = "inf" /\ vn.k = "inf" -> 45
                       [] ve.k = "inf" -> 90
                       [] vn.k = "inf" -> 0
                       [] OTHER -> calculated_track(ve.n, vn.n)
             diff == Abs(track.n - calc)
         IN  (IF diff > 180 THEN 360 - diff ELSE diff) > t

\* Rule 3: > 30 deg critical, > 10 deg warning.
TrackSeverity(track, ve, vn) ==
    IF TrackDiffExceeds(track, ve, vn, 30) THEN "critical"
    ELSE IF TrackDiffExceeds(track, ve, vn, 10) THEN "warning"
    ELSE "info"

TrackRule(fm) ==
    LET track == fm[GroundTrack]
        ve == fm[VelocityE]
        vn == fm[VelocityN]
        track_vals == _normalize_to_list(track)
        ve_vals == _normalize_to_list(ve)
        vn_vals == _normalize_to_list(vn)
    IN  IF IsNone(track) \/ IsNone(ve) \/ IsNone(vn) THEN <<>>
        ELSE RuleCut(Flatten([i \in 1..ZipLen(<<track_vals, ve_vals, vn_vals>>) |->
                LET fl == FloatAll(<<track_vals[i], ve_vals[i], vn_vals[i]>>)
                IN  IF fl # <<>> THEN fl
                    ELSE StepAtom("cross_field_consistency", "Track_vs_Velocity_Direction",
                                  i - 1, Len(track_vals),
                                  TrackSeverity(track_vals[i], ve_vals[i], vn_vals[i]),
                                  "cross_field")]))

\* CrossFieldConsistencyChecker.verify on a dict json_data
CrossFieldVerify(fm) == AltitudeRule(fm) \o SpeedRule(fm) \o TrackRule(fm)

-----------------------------------------------------------------------------
(* PhysicsConstraintChecker *)

\* Rule 1 (M3): the changes abs(curr - prev) of adjacent elements that exceed
\* threshold = 2 x the jump threshold (no violation can exceed float('inf')).
ContinuityViolations(field, vals) ==
    IF field \notin DOMAIN jump_thresholds \/ jump_thresholds[field] <= 0 THEN {}
    ELSE {d \in {AbsDiff(vals[i], vals[i - 1]) :
                    i \in {j \in 2..Len(vals) : FloatKind(vals[j - 1]) \notin {"verr", "overflow"}
                                                /\ FloatKind(vals[j]) \notin {"verr", "overflow"}}} :
             Exceeds(d, 2 * jump_thresholds[field])}

\* float() raises OverflowError in some pair before a ValueError skips the pair.
ContinuityRaises(vals) ==
    \E j \in 2..Len(vals) :
        \/ FloatKind(vals[j - 1]) = "overflow"
        \/ FloatKind(vals[j - 1]) # "verr" /\ FloatKind(vals[j]) = "overflow"

ContinuityFieldEvents(field, e) ==
    IF ~e.present \/ ~e.list \/ Len(e.vals) < 2 THEN <<>>
    ELSE IF ContinuityRaises(e.vals) THEN <<Raise>>
    ELSE LET violations == ContinuityViolations(field, e.vals)
         IN  IF violations # {}
             THEN <<Atom("physics_constraint", field \o "_continuity", -1, FALSE,
                         IF \E d \in violations : Exceeds(d, 3 * jump_thresholds[field])
                         THEN "critical" ELSE "warning",
                         "field", Zero)>>
             ELSE <<Atom("physics_constraint", field \o "_continuity", -1, TRUE, "info",
                         "field", Zero)>>

ContinuityRule(fm, task_type) ==
    IF task_type # "M3" THEN <<>>
    ELSE Flatten([i \in 1..Len(required_fields) |->
                    ContinuityFieldEvents(required_fields[i], fm[required_fields[i]])])

\* Rule 2: abs(vs) > max_vs is a warning; max_vs is 2000 below 1000 ft, else 5000.
VelocityAltitudeSeverity(alt, vs) ==
    IF AbsAbove(vs, IF Below(alt, 1000) THEN 2000 ELSE 5000) THEN "warning" ELSE "info"

VelocityAltitudeRule(fm) ==
    LET altitude == fm[GPSAltitude]
        vertical_speed == fm[VerticalSpeed]
        alt_vals == _normalize_to_list(altitude)
        vs_vals == _normalize_to_list(vertical_speed)
    IN  IF IsNone(altitude) \/ IsNone(vertical_speed) THEN <<>>
        ELSE RuleCut(Flatten([i \in 1..ZipLen(<<alt_vals, vs_vals>>) |->
                LET fl == FloatAll(<<alt_vals[i], vs_vals[i]>>)
                IN  IF fl # <<>> THEN fl
                    ELSE StepAtom("physics_constraint", "Velocity_Altitude_Consistency", i - 1,
                                  Len(alt_vals), VelocityAltitudeSeverity(alt_vals[i], vs_vals[i]),
                                  "cross_field")]))

\* Rule 3: abs(roll) > 60 or abs(pitch) > 60 is critical; abs(pitch) > 15 with
\* abs(vu) < (abs(pitch) / 30 * 5) * 0.3, that is 20 abs(vu) < abs(pitch), is a warning.
AttitudeSeverity(roll, pitch, vu) ==
    IF AbsAbove(roll, 60) \/ AbsAbove(pitch, 60) THEN "critical"
    ELSE IF AbsAbove(pitch, 15) /\ vu.k = "num" /\ 20 * Abs(vu.n) < Abs(pitch.n) THEN "warning"
    ELSE "info"

AttitudeRule(fm) ==
    LET roll == fm[Roll]
        pitch == fm[Pitch]
        vu == fm[VelocityU]
        roll_vals == _normalize_to_list(roll)
        pitch_vals == _normalize_to_list(pitch)
        vu_vals == _normalize_to_list(vu)
    IN  IF IsNone(roll) \/ IsNone(pitch) \/ IsNone(vu) THEN <<>>
        ELSE RuleCut(Flatten([i \in 1..ZipLen(<<roll_vals, pitch_vals, vu_vals>>) |->
                LET fl == FloatAll(<<roll_vals[i], pitch_vals[i], vu_vals[i]>>)
                IN  IF fl # <<>> THEN fl
                    ELSE StepAtom("physics_constraint", "Attitude_Velocity_Consistency", i - 1,
                                  Len(roll_vals),
                                  AttitudeSeverity(roll_vals[i], pitch_vals[i], vu_vals[i]),
                                  "cross_field")]))

\* PhysicsConstraintChecker.verify on a dict json_data
PhysicsConstraintVerify(fm, task_type) ==
    ContinuityRule(fm, task_type) \o VelocityAltitudeRule(fm) \o AttitudeRule(fm)

-----------------------------------------------------------------------------
(* SafetyConstraintChecker *)

FailAtom(field, idx, n, severity, scope) ==
    Atom("safety_constraint", field, IF n > 1 THEN idx ELSE -1, FALSE, severity, scope, Zero)

\* A variant that warns up to and including -2000 and is critical from -3000.
RapidDescentStepInclusive(idx, n, vs_val, alt_val) ==
    LET fl == FloatAll(<<vs_val>>)
    IN  IF fl # <<>> THEN fl
        ELSE IF Below(vs_val, -2999)
             THEN CASE alt_val.k = "none" \/ FloatAll(<<alt_val>>) = <<>> ->
                          <<FailAtom("Rapid_Descent", idx, n, "critical", "sample")>>
                    [] OTHER -> <<Burn>> \o FloatAll(<<alt_val>>)
        ELSE IF Below(vs_val, -1999)
             THEN <<FailAtom("Rapid_Descent", idx, n, "warning", "sample")>>
        ELSE <<>>

\* Rule 1, one timestep: vs < -3000 is critical, vs < -2000 a warning.  The
\* critical atom's meta converts the altitude after its ID was generated.
RapidDescentStep(idx, n, vs_val, alt_val) ==
    LET fl == FloatAll(<<vs_val>>)
    IN  IF fl # <<>> THEN fl
        ELSE IF Below(vs_val, -3000)
             THEN CASE alt_val.k = "none" \/ FloatAll(<<alt_val>>) = <<>> ->
                          <<FailAtom("Rapid_Descent", idx, n, "critical", "sample")>>
                    [] OTHER -> <<Burn>> \o FloatAll(<<alt_val>>)
        ELSE IF Below(vs_val, -2000)
             THEN <<FailAtom("Rapid_Descent", idx, n, "warning", "sample")>>
        ELSE <<>>

RapidDescentRule(fm) ==
    LET vertical_speed == fm[VerticalSpeed]
        altitude == fm[GPSAltitude]
        vs_vals == _normalize_to_list(vertical_speed)
        alt_vals == IF IsNone(altitude) THEN [i \in 1..Len(vs_vals) |-> Null]
                    ELSE _normalize_to_list(altitude)
    IN  IF IsNone(vertical_speed) THEN <<>>
        ELSE RuleCut(Flatten([i \in 1..ZipLen(<<vs_vals, alt_vals>>) |->
                RapidDescentStep(i - 1, Len(vs_vals), vs_vals[i], alt_vals[i])]))

\* Rule 2a: airspeed < 30 kt is critical, > 180 kt a warning.
ExtremeSpeedRule(fm) ==
    LET airspeed == fm[IndicatedAirspeed]
        ias_vals == _normalize_to_list(airspeed)
    IN  IF IsNone(airspeed) THEN <<>>
        ELSE RuleCut(Flatten([i \in 1..Len(ias_vals) |->
                LET fl == FloatAll(<<ias_vals[i]>>)
                IN  IF fl # <<>> THEN fl
                    ELSE IF Below(ias_vals[i], 30)
                         THEN <<FailAtom("Extreme_Speed", i - 1, Len(ias_vals), "critical", "field")>>
                    ELSE IF Above(ias_vals[i], 180)
                         THEN <<FailAtom("Extreme_Speed", i - 1, Len(ias_vals), "warning", "field")>>
                    ELSE <<>>]))

\* Rule 2b: altitude < 0 ft is critical, > 15000 ft a warning.
ExtremeAltitudeRule(fm) ==
    LET altitude == fm[GPSAltitude]
        alt_vals == _normalize_to_list(altitude)
    IN  IF IsNone(altitude) THEN <<>>
        ELSE RuleCut(Flatten([i \in 1..Len(alt_vals) |->
                LET fl == FloatAll(<<alt_vals[i]>>)
                IN  IF fl # <<>> THEN fl
                    ELSE IF Below(alt_vals[i], 0)
                         THEN <<FailAtom("Extreme_Altitude", i - 1, Len(alt_vals), "critical", "field")>>
                    ELSE IF Above(alt_vals[i], 15000)
                         THEN <<FailAtom("Extreme_Altitude", i - 1, Len(alt_vals), "warning", "field")>>
                    ELSE <<>>]))

\* Rule 3: airspeed < 50 and pitch > 15 and vertical speed < 500 is critical.
StallRule(fm) ==
    LET airspeed == fm[IndicatedAirspeed]
        pitch == fm[Pitch]
        vertical_speed == fm[VerticalSpeed]
        ias_vals == _normalize_to_list(airspeed)
        pitch_vals == _normalize_to_list(pitch)
        vs_vals == _normalize_to_list(vertical_speed)
    IN  IF IsNone(airspeed) \/ IsNone(pitch) \/ IsNone(vertical_speed) THEN <<>>
        ELSE RuleCut(Flatten([i \in 1..ZipLen(<<ias_vals, pitch_vals, vs_vals>>) |->
                LET fl == FloatAll(<<ias_vals[i], pitch_vals[i], vs_vals[i]>>)
                IN  IF fl # <<>> THEN fl
                    ELSE IF Below(ias_vals[i], 50) /\ Above(pitch_vals[i], 15)
                            /\ Below(vs_vals[i], 500)
                         THEN <<FailAtom("Stall_Condition", i - 1, Len(ias_vals), "critical", "sample")>>
                    ELSE <<>>]))

\* SafetyConstraintChecker.verify on a dict json_data
SafetyConstraintVerify(fm) ==
    RapidDescentRule(fm) \o ExtremeSpeedRule(fm) \o ExtremeAltitudeRule(fm) \o StallRule(fm)

-----------------------------------------------------------------------------
(* SafetyConstraintCheckerV2: scores a prediction against sample.gold.  Scores *)
(* are in hundredths (0, 25, 50, 75, 100).                                     *)

\* The (error, pred, true) tuples of the timesteps float() accepts.
V2Errors(pred_vals, true_vals) ==
    LET n == ZipLen(<<pred_vals, true_vals>>)
        ok == {i \in 1..n : FloatKind(pred_vals[i]) \notin {"verr", "overflow"}
                            /\ FloatKind(true_vals[i]) \notin {"verr", "overflow"}}
    IN  [raises |-> \E i \in 1..n :
                       \/ FloatKind(pred_vals[i]) = "overflow"
                       \/ FloatKind(pred_vals[i]) # "verr" /\ FloatKind(true_vals[i]) = "overflow",
         errors |-> {[error |-> AbsDiff(pred_vals[i], true_vals[i]), pred |-> pred_vals[i],
                      true |-> true_vals[i], i |-> i] : i \in ok}]

RECURSIVE SumN(_)
SumN(S) == IF S = {} THEN 0 ELSE LET x == CHOOSE x \in S : TRUE IN x.error.n + SumN(S \ {x})

\* avg_error < t for avg_error = sum(errors) / len(errors)
AvgBelow(errors, t) ==
    /\ \A e \in errors : e.error.c = "fin"
    /\ SumN(errors) < t * Cardinality(errors)

\* The ladder of a score on avg_error with thresholds t1 < t2 < t3 < t4.
Ladder(errors, t1, t2, t3, t4) ==
    IF AvgBelow(errors, t1) THEN 100
    ELSE IF AvgBelow(errors, t2) THEN 75
    ELSE IF AvgBelow(errors, t3) THEN 50
    ELSE IF AvgBelow(errors, t4) THEN 25
    ELSE 0

\* rel_error > 0.5 for rel_error = error / max(abs(true), 1.0)
RelErrorHigh(e) ==
    \/ e.error.c = "inf"
    \/ e.error.c = "fin" /\ e.true.k = "num" /\ 2 * e.error.n > Max2(Abs(e.true.n), 1)

\* _calculate_airspeed_safety_score
_calculate_airspeed_safety_score(errors) ==
    LET base_score == Ladder(errors, 5, 15, 30, 50)
        Penalty(e) ==
            IF Below(e.true, 50) /\ Above(e.pred, 100) THEN 50
            ELSE IF Above(e.true, 150) /\ Below(e.pred, 100) THEN 50
            ELSE IF RelErrorHigh(e) THEN 25
            ELSE 0
        danger_penalty == IF \E e \in errors : Penalty(e) = 50 THEN 50
                          ELSE IF \E e \in errors : Penalty(e) = 25 THEN 25
                          ELSE 0
        final_score == Max2(0, base_score - danger_penalty)
    IN  IF final_score >= 90 THEN 100
        ELSE IF final_score >= 65 THEN 75
        ELSE IF final_score >= 40 THEN 50
        ELSE IF final_score >= 15 THEN 25
        ELSE 0

\* The altitude score: the ladder, capped at 0.25 for a low true altitude with
\* an error above 200 ft.
AltitudeScore(errors) ==
    LET score == Ladder(errors, 50, 150, 300, 500)
    IN  IF \E e \in errors : Below(e.true, 500) /\ Exceeds(e.error, 200)
        THEN Min2(score, 25) ELSE score

\* The vertical-speed score: the ladder, capped at 0.25 for a true descent
\* faster than 2000 fpm with an error above 1000 fpm.
VerticalSpeedScore(errors) ==
    LET score == Ladder(errors, 500, 1000, 1500, 2000)
    IN  IF \E e \in errors : Below(e.true, -2000) /\ Exceeds(e.error, 1000)
        THEN Min2(score, 25) ELSE score

\* pass_check and severity of a score
V2Atom(field, score) ==
    Atom("safety_constraint", field, -1, score >= 50,
         IF score < 25 THEN "critical" ELSE IF score < 50 THEN "warning" ELSE "info",
         "sample", [c |-> "fin", n |-> score])

\* _check_airspeed_safety, _check_altitude_safety, _check_vertical_speed_safety
V2Check(field, pred, true) ==
    IF IsNone(pred) \/ IsNone(true) THEN <<>>
    ELSE LET r == V2Errors(_normalize_to_list(pred), _normalize_to_list(true))
         IN  IF r.raises THEN <<Raise>>
             ELSE IF r.errors = {} THEN <<>>
             ELSE CASE field = "Airspeed_Safety" ->
                          <<V2Atom(field, _calculate_airspeed_safety_score(r.errors))>>
                    [] field = "Altitude_Safety" -> <<V2Atom(field, AltitudeScore(r.errors))>>
                    [] OTHER -> <<V2Atom(field, VerticalSpeedScore(r.errors))>>

\* SafetyConstraintCheckerV2.verify on a dict json_data and a non-empty gold
SafetyConstraintV2Verify(fm, gold) ==
    V2Check("Airspeed_Safety", fm[IndicatedAirspeed], gold[IndicatedAirspeed])
    \o V2Check("Altitude_Safety", fm[GPSAltitude], gold[GPSAltitude])
    \o V2Check("Vertical_Speed_Safety", fm[VerticalSpeed], gold[VerticalSpeed])

-----------------------------------------------------------------------------
(* Evidence IDs and the verifier graph *)

\* A variant that formats the ID without the counter.
_generate_evidence_id_fixed(verifier_id, counter) == <<verifier_id, 1>>

\* Verifier._generate_evidence_id with evidence_counter = counter before the
\* call: the ID "EVID_<verifier_id>_<counter + 1>".
_generate_evidence_id(verifier_id, counter) == <<verifier_id, counter + 1>>

\* The position of the first "raise" among the events, 0 if there is none.
FirstRaise(es) ==
    IF \E i \in 1..Len(es) : es[i].ev = "raise"
    THEN CHOOSE i \in 1..Len(es) : es[i].ev = "raise" /\ \A j \in 1..(i - 1) : es[j].ev # "raise"
    ELSE 0

\* The number of _generate_evidence_id calls among the first i events.
IdsUsed(es, i) == Cardinality({j \in 1..i : es[j].ev \in {"atom", "burn"}})

\* A verify() call replayed from its events: the EvidenceAtoms it built, the
\* counter it leaves behind and whether an error left it.
RunEvents(es, verifier_id, counter, stop) ==
    LET n == IF stop = 0 THEN Len(es) ELSE stop - 1
        IsAtom(a) == a.type # ""
    IN  [raised |-> stop # 0,
         counter |-> counter + IdsUsed(es, n),
         atoms |-> SelectSeq(
             [i \in 1..n |->
                 [id |-> _generate_evidence_id(verifier_id, counter + IdsUsed(es, i) - 1),
                  type |-> es[i].type, field |-> es[i].field, idx |-> es[i].idx,
                  pass_ |-> es[i].pass_, severity |-> es[i].severity,
                  scope |-> es[i].scope, m |-> es[i].m]],
             IsAtom)]

\* VerifierGraph.verifiers in the order _build_verifier_graph adds them
verifiers ==
    << "NUMERIC_VALIDITY", "RANGE_SANITY", "JUMP_DYNAMICS", "CROSS_FIELD_CONSISTENCY",
       "PHYSICS_CONSTRAINT", "SAFETY_CONSTRAINT" >>

VerifierIds == {verifiers[i] : i \in 1..Len(verifiers)}

\* VerifierGraph.dependencies
dependencies ==
    [v \in VerifierIds |->
        CASE v = "NUMERIC_VALIDITY" -> <<>>
          [] v \in {"RANGE_SANITY", "JUMP_DYNAMICS"} -> <<"NUMERIC_VALIDITY">>
          [] OTHER -> <<"RANGE_SANITY">>]

\* verifier.verify(sample, model_output, context) as events.  json is what
\* extract_json_from_response returned: "none", a "dict" (fm its fields), an
\* "int" (its `in` raises TypeError) or a "list" (it has no .get).
Verify(verifier_id, json, fm, prev_pred, task_type) ==
    IF json = "none" THEN <<>>
    ELSE CASE verifier_id = "NUMERIC_VALIDITY" ->
                 IF json = "int" THEN <<Raise>> ELSE NumericValidityVerify(fm)
           [] verifier_id = "RANGE_SANITY" -> RangeSanityVerify(fm)
           [] verifier_id = "JUMP_DYNAMICS" -> JumpDynamicsVerify(fm, prev_pred, task_type)
           [] verifier_id = "CROSS_FIELD_CONSISTENCY" ->
                 IF json # "dict" THEN <<Raise>> ELSE CrossFieldVerify(fm)
           [] verifier_id = "PHYSICS_CONSTRAINT" ->
                 IF json # "dict" THEN <<Raise>> ELSE PhysicsConstraintVerify(fm, task_type)
           [] OTHER ->
                 IF json # "dict" THEN <<Raise>> ELSE SafetyConstraintVerify(fm)

VerifyRun(verifier_id, counter, es) == RunEvents(es, verifier_id, counter, FirstRaise(es))

\* VerifierGraph.execute: st = [all_evidence, executed, raised, counters];
\* executed lists the verifiers whose verify() returned, in order.  todo is
\* the call stack of execute_verifier: <<"call", v>> enters it for v,
\* <<"verify", v>> is the point after v's dependencies were executed.
RECURSIVE execute_verifier(_, _, _, _, _, _)
execute_verifier(todo, st, json, fm, prev_pred, task_type) ==
    IF todo = <<>> \/ st.raised THEN st
    ELSE LET v == Head(todo)[2]
             r == VerifyRun(v, st.counters[v], Verify(v, json, fm, prev_pred, task_type))
         IN  IF Head(todo)[1] = "call"
             THEN IF \E i \in 1..Len(st.executed) : st.executed[i] = v
                  THEN execute_verifier(Tail(todo), st, json, fm, prev_pred, task_type)
                  ELSE execute_verifier(
                           [i \in 1..Len(dependencies[v]) |-> <<"call", dependencies[v][i]>>]
                           \o <<<<"verify", v>>>> \o Tail(todo),
                           st, json, fm, prev_pred, task_type)
             ELSE execute_verifier(
                      Tail(todo),
                      [all_evidence |-> IF r.raised THEN st.all_evidence
                                        ELSE st.all_evidence \o r.atoms,
                       executed |-> IF r.raised THEN st.executed ELSE Append(st.executed, v),
                       raised |-> r.raised,
                       counters |-> [st.counters EXCEPT ![v] = r.counter]],
                      json, fm, prev_pred, task_type)

execute(counters, json, fm, prev_pred, task_type) ==
    execute_verifier([i \in 1..Len(verifiers) |-> <<"call", verifiers[i]>>],
               [all_evidence |-> <<>>, executed |-> <<>>, raised |-> FALSE, counters |-> counters],
               json, fm, prev_pred, task_type)

-----------------------------------------------------------------------------
(* EvaluatorAgent: the checklist *)

\* get_capabilities() of each verifier of the graph
get_capabilities(verifier_id) ==
    CASE verifier_id = "NUMERIC_VALIDITY" -> "numeric_validity"
      [] verifier_id = "RANGE_SANITY" -> "range_sanity"
      [] verifier_id = "JUMP_DYNAMICS" -> "jump_dynamics"
      [] verifier_id = "CROSS_FIELD_CONSISTENCY" -> "cross_field_consistency"
      [] verifier_id = "PHYSICS_CONSTRAINT" -> "physics_constraints"
      [] OTHER -> "safety_constraints"

\* verifier_capabilities as evaluate_sample collects them
verifier_capabilities == [i \in 1..Len(verifiers) |-> get_capabilities(verifiers[i])]

\* capability_to_constraint of generate_checklist
capability_to_constraint(capability) ==
    CASE capability = "numeric_validity" -> "NUMERIC_VALIDITY"
      [] capability = "range_sanity" -> "RANGE_SANITY"
      [] capability = "jump_dynamics" -> "JUMP_DYNAMICS"
      [] capability = "physics_constraints" -> "PHYSICS_CONSTRAINT"
      [] capability = "safety_constraints" -> "SAFETY_CONSTRAINT"
      [] OTHER -> "CROSS_FIELD_CONSISTENCY"

\* constraint_to_type of organize_verification_workflow
constraint_to_type(constraint_id) ==
    CASE constraint_id = "NUMERIC_VALIDITY" -> "numeric_validity"
      [] constraint_id = "RANGE_SANITY" -> "range_sanity"
      [] constraint_id = "JUMP_DYNAMICS" -> "jump_dynamics"
      [] constraint_id = "PHYSICS_CONSTRAINT" -> "physics_constraints"
      [] constraint_id = "SAFETY_CONSTRAINT" -> "safety_constraints"
      [] OTHER -> "cross_field_consistency"

\* generate_checklist: one item per capability, item_id being CHECK_00i
generate_checklist(capabilities) ==
    [i \in 1..Len(capabilities) |->
        [item_id |-> i, constraint_id |-> capability_to_constraint(capabilities[i]),
         evidence_ids |-> <<>>, status |-> "unknown"]]

\* The item of organize_verification_workflow's loop, relevant_atoms being the
\* atoms of the item's evidence type.
UpdatedItem(item, relevant_atoms) ==
    IF relevant_atoms # <<>>
    THEN [item EXCEPT !.evidence_ids = [j \in 1..Len(relevant_atoms) |-> relevant_atoms[j].id],
                      !.status = IF \A j \in 1..Len(relevant_atoms) : relevant_atoms[j].pass_
                                 THEN "pass" ELSE "fail"]
    ELSE [item EXCEPT !.evidence_ids = <<>>, !.status = "unknown"]

\* organize_verification_workflow(checklist, evidence_atoms): the updated checklist
organize_verification_workflow(checklist, evidence_atoms) ==
    [i \in 1..Len(checklist) |->
        LET OfType(a) == a.type = constraint_to_type(checklist[i].constraint_id)
        IN  UpdatedItem(checklist[i], SelectSeq(evidence_atoms, OfType))]

-----------------------------------------------------------------------------
(* EvaluatorAgent.adjudicate *)

IsCriticalFailure(e) == e.severity = "critical" /\ ~e.pass_
IsWarningFailure(e) == e.severity = "warning" /\ ~e.pass_
IsProtocolFailure(e) == e.type = "numeric_validity" /\ ~e.pass_

\* "eligible" or "ineligible"
Adjudication(evidence_atoms) ==
    IF SelectSeq(evidence_atoms, IsCriticalFailure) # <<>>
       \/ SelectSeq(evidence_atoms, IsProtocolFailure) # <<>>
    THEN "ineligible" ELSE "eligible"

\* The grouping key f"{type}:{field}"; the field of a numeric_validity atom of
\* a list element carries its index.
GroupKey(e) == <<e.type, e.field, IF e.type = "numeric_validity" THEN e.idx ELSE -1>>

\* The keys of failure_groups in insertion order.
RECURSIVE GroupKeys(_, _)
GroupKeys(failures, keys) ==
    IF failures = <<>> THEN keys
    ELSE LET k == GroupKey(Head(failures))
         IN  GroupKeys(Tail(failures),
                       IF \E i \in 1..Len(keys) : keys[i] = k THEN keys ELSE Append(keys, k))

\* One attribution entry: the failures of one group, with its rank.
Entry(key, failures, rank) ==
    [key |-> key,
     evidence_ids |-> [j \in 1..Len(failures) |-> failures[j].id],
     severity |-> failures[1].severity,
     rank |-> rank,
     count |-> Len(failures)]

Group(all_failures, k) == LET InGroup(e) == GroupKey(e) = k IN SelectSeq(all_failures, InGroup)

TopK(all_failures, keys) ==
    [i \in 1..Min2(5, Len(keys)) |-> Entry(keys[i], Group(all_failures, keys[i]), i)]

AllFailures(evidence_atoms) ==
    SelectSeq(evidence_atoms, IsCriticalFailure) \o SelectSeq(evidence_atoms, IsWarningFailure)

FailureGroups(all_failures) == TopK(all_failures, GroupKeys(all_failures, <<>>))

\* The Top-5 attribution entries of adjudicate.
Attribution(evidence_atoms) == FailureGroups(AllFailures(evidence_atoms))

-----------------------------------------------------------------------------
(* RuleBasedFusionAligned and the rubric *)

\* gate(evidence_atoms): passed_gating
gate(evidence_atoms) == SelectSeq(evidence_atoms, IsCriticalFailure) = <<>>

\* The failing atoms of a type that are not critical.
CountFailNotCritical(evidence_atoms, type) ==
    LET Is(e) == e.type = type /\ ~e.pass_ /\ e.severity # "critical"
    IN  Len(SelectSeq(evidence_atoms, Is))

\* _count_evidence_by_type: the 'pass' and 'fail' counts of one type
CountPass(evidence_atoms, type) ==
    LET Is(e) == e.type = type /\ e.pass_ IN Len(SelectSeq(evidence_atoms, Is))
CountFail(evidence_atoms, type) ==
    LET Is(e) == e.type = type /\ ~e.pass_ IN Len(SelectSeq(evidence_atoms, Is))

PROTOCOL_SCHEMA == "protocol_schema_compliance"
FIELD_VALIDITY == "field_validity_local_dynamics"
PHYSICS_CONSISTENCY == "physics_cross_field_consistency"
SAFETY_CONSTRAINT == "safety_constraint_satisfaction"
PREDICTIVE_QUALITY == "predictive_quality_reliability"

Dimension == <<PROTOCOL_SCHEMA, FIELD_VALIDITY, PHYSICS_CONSISTENCY, SAFETY_CONSTRAINT,
               PREDICTIVE_QUALITY>>
Grade == <<"A", "B", "C", "D">>

\* RUBRIC[dimension][grade]["evidence_requirements"]: max_failure_rate in
\* hundredths per evidence type, the parsing success required, and the
\* field_completeness rate in tenths (-1: no such requirement).
RUBRIC ==
    [d \in {PROTOCOL_SCHEMA, FIELD_VALIDITY, PHYSICS_CONSISTENCY, SAFETY_CONSTRAINT} |->
        [g \in {"A", "B", "C", "D"} |->
            CASE d = PROTOCOL_SCHEMA ->
                   [types |-> {"numeric_validity"},
                    max_failure_rate |-> CASE g = "A" -> 0 [] g = "B" -> 5 [] g = "C" -> 15
                                           [] OTHER -> 100,
                    has_parsing |-> TRUE,
                    parsing |-> g # "D",
                    rate |-> CASE g = "A" -> 10 [] g = "B" -> 10 [] g = "C" -> 9 [] OTHER -> 8]
              [] d = FIELD_VALIDITY ->
                   [types |-> {"range_sanity", "jump_dynamics"},
                    max_failure_rate |-> CASE g = "A" -> 0 [] g = "B" -> 5 [] g = "C" -> 15
                                           [] OTHER -> 100,
                    has_parsing |-> FALSE, parsing |-> TRUE, rate |-> -1]
              [] d = PHYSICS_CONSISTENCY ->
                   [types |-> {"cross_field_consistency", "physics_constraint"},
                    max_failure_rate |-> CASE g = "A" -> 0 [] g = "B" -> 10 [] g = "C" -> 25
                                           [] OTHER -> 100,
                    has_parsing |-> FALSE, parsing |-> TRUE, rate |-> -1]
              [] OTHER ->
                   [types |-> {"safety_constraint"},
                    max_failure_rate |-> CASE g = "A" -> 0 [] g = "B" -> 10 [] g = "C" -> 25
                                           [] OTHER -> 100,
                    has_parsing |-> FALSE, parsing |-> TRUE, rate |-> -1]]]

\* failure_rate > max_failure_rate, evaluated only when total > 0
FailureRateAbove(evidence_atoms, type, max_failure_rate) ==
    LET fail == CountFail(evidence_atoms, type)
        total == CountPass(evidence_atoms, type) + fail
    IN  total > 0 /\ fail * 100 > max_failure_rate * total

\* _calculate_completeness: (provided / len(required_fields)) * 100.0, kept as
\* the number of provided fields.
_calculate_completeness(json, fm) ==
    IF json # "dict" THEN 0
    ELSE Cardinality({f \in Fields : fm[f].present})

\* completeness_rate < required_rate: the rate is on the 0-100 scale, the
\* rubric's on the 0-1 scale (given in tenths).
CompletenessBelow(provided, rate) == provided * 1000 < rate * Len(required_fields)

\* One grade's requirements of _determine_grade: matches
Matches(dimension, g, evidence_atoms, parsing_success, provided) ==
    LET req == RUBRIC[dimension][g]
    IN  /\ \A t \in req.types : ~FailureRateAbove(evidence_atoms, t, req.max_failure_rate)
        /\ req.has_parsing => (req.parsing = parsing_success)
        /\ req.rate >= 0 => ~CompletenessBelow(provided, req.rate)

\* _determine_grade: the first grade of A, B, C, D (from Grade[i] on) that
\* matches, else D
RECURSIVE FirstMatch(_, _, _, _, _)
FirstMatch(i, dimension, evidence_atoms, parsing_success, provided) ==
    IF i > Len(Grade) THEN "D"
    ELSE IF Matches(dimension, Grade[i], evidence_atoms, parsing_success, provided) THEN Grade[i]
    ELSE FirstMatch(i + 1, dimension, evidence_atoms, parsing_success, provided)

_determine_grade(dimension, evidence_atoms, parsing_success, provided) ==
    FirstMatch(1, dimension, evidence_atoms, parsing_success, provided)

\* GRADE_SCORE_MAP in hundredths
GRADE_SCORE_MAP == [g \in {"A", "B", "C", "D"} |->
                       CASE g = "A" -> 100 [] g = "B" -> 75 [] g = "C" -> 50 [] OTHER -> 0]

\* overall_grade: the mean of the five dimension scores (the fifth is 0.0)
\* against 0.875, 0.625 and 0.25.
OverallGrade(grade_vector) ==
    LET total == GRADE_SCORE_MAP[grade_vector[PROTOCOL_SCHEMA]]
                 + GRADE_SCORE_MAP[grade_vector[FIELD_VALIDITY]]
                 + GRADE_SCORE_MAP[grade_vector[PHYSICS_CONSISTENCY]]
                 + GRADE_SCORE_MAP[grade_vector[SAFETY_CONSTRAINT]]
    IN  IF 2 * total >= 875 THEN "A"
        ELSE IF 2 * total >= 625 THEN "B"
        ELSE IF total >= 125 THEN "C"
        ELSE "D"

\* grade_vector of calculate_scores without gold data: no grade for the fifth
\* dimension.
GradeVector(evidence_atoms, parsing_success, provided) ==
    [d \in {Dimension[i] : i \in 1..Len(Dimension)} |->
        IF d = PREDICTIVE_QUALITY THEN "None"
        ELSE _determine_grade(d, evidence_atoms, parsing_success, provided)]

\* dimension_scores of calculate_scores, in hundredths: GRADE_SCORE_MAP of
\* the grade for the four graded dimensions and, for the fifth, the mean of
\* mae_score and rmse_score over 100 - or 0.0 without a conditional error.
dimension_scores(grade_vector, conditional_error) ==
    [d \in {Dimension[i] : i \in 1..Len(Dimension)} |->
        IF d = PREDICTIVE_QUALITY
        THEN IF conditional_error.eligible
             THEN (conditional_error.mae_score + conditional_error.rmse_score) \div 2
             ELSE 0
        ELSE GRADE_SCORE_MAP[grade_vector[d]]]

\* sum(scores.values()) of a dict of dimension scores
SumScores(scores) ==
    scores[PROTOCOL_SCHEMA] + scores[FIELD_VALIDITY] + scores[PHYSICS_CONSISTENCY]
        + scores[SAFETY_CONSTRAINT] + scores[PREDICTIVE_QUALITY]

\* overall_score = sum(dimension_scores.values()) / len(dimension_scores), in
\* ten-thousandths (8750 is 0.875)
overall_score(scores) == (SumScores(scores) * 100) \div Len(Dimension)

\* A variant whose thresholds are exclusive.
overall_grade_exclusive(overall_grade_value) ==
    IF overall_grade_value > 8750 THEN "A"
    ELSE IF overall_grade_value > 6250 THEN "B"
    ELSE IF overall_grade_value > 2500 THEN "C"
    ELSE "D"

\* overall_grade of calculate_scores from overall_score
overall_grade(overall_grade_value) ==
    IF overall_grade_value >= 8750 THEN "A"
    ELSE IF overall_grade_value >= 6250 THEN "B"
    ELSE IF overall_grade_value >= 2500 THEN "C"
    ELSE "D"

\* What calculate_scores returns of the rubric scores: "overall_score" and
\* "total_score" are overall_score * 100.0 (here in hundredths of a point).
calculate_scores(grade_vector, conditional_error) ==
    [grade_vector |-> [grade_vector EXCEPT ![PREDICTIVE_QUALITY] = "None"],
     dimension_scores |-> dimension_scores(grade_vector, conditional_error),
     overall_grade |-> overall_grade(overall_score(dimension_scores(grade_vector,
                                                                    conditional_error))),
     overall_score |-> overall_score(dimension_scores(grade_vector, conditional_error)),
     total_score |-> overall_score(dimension_scores(grade_vector, conditional_error))]

\* sum() of a list of scores
RECURSIVE SumSeq(_)
SumSeq(seq) == IF seq = <<>> THEN 0 ELSE Head(seq) + SumSeq(Tail(seq))

\* LLMJudge.grade_to_score
grade_to_score(grade) == GRADE_SCORE_MAP[grade]

\* aggregate_grade_scores: the arithmetic mean, in ten-thousandths
aggregate_grade_scores(grade_scores) ==
    IF Len(grade_scores) = 0 THEN 0
    ELSE (SumSeq(grade_scores) * 100) \div Len(grade_scores)

\* LLMJudge.compute_overall_score on a judge output's grade vector
compute_overall_score(grade_vector) ==
    aggregate_grade_scores([i \in 1..Len(Dimension) |-> grade_to_score(grade_vector[Dimension[i]])])

\* What LLMBasedFusion.calculate_scores returns of the judge's grades.
llm_calculate_scores(grade_vector) ==
    [grade_vector |-> grade_vector,
     dimension_scores |->
         [d \in {Dimension[i] : i \in 1..Len(Dimension)} |-> grade_to_score(grade_vector[d])],
     overall_score |-> compute_overall_score(grade_vector),
     total_score |-> compute_overall_score(grade_vector)]

-----------------------------------------------------------------------------
(* Replies.  A raw response text is [keyword, whole, inner, fm]: whether it    *)
(* contains one of is_api_error's keywords, what json.loads of the whole text  *)
(* gives ("invalid" for a JSONDecodeError), whether a fenced block or a brace  *)
(* scan finds an object, and the fields of the object found.                   *)

Models == {"model_a", "model_b"}
Tasks == {"S1", "M1", "M3"}

NoFields == [f \in Fields |-> Absent]

\* A plausible S1 prediction (cruise at 1000 ft heading north-east).
NominalValue ==
    [f \in Fields |->
        CASE f = Latitude -> 40
          [] f = Longitude -> -74
          [] f = GPSAltitude -> 1000
          [] f \in {GroundTrack, MagneticHeading} -> 45
          [] f \in {VelocityE, VelocityN} -> 36
          [] f \in {GroundSpeed, IndicatedAirspeed} -> 100
          [] f \in {BaroAltitude, PressureAltitude} -> 1050
          [] f = NormalAcceleration -> 1
          [] OTHER -> 0]

Nominal == [f \in Fields |-> Scalar(Num(NominalValue[f]))]
NominalM3 == [f \in Fields |-> List([i \in 1..ArrLen |-> Num(NominalValue[f])])]

Text(keyword, whole, inner, fm) ==
    [keyword |-> keyword, whole |-> whole, inner |-> inner, fm |-> fm]

ReplyNames ==
    {"api_error", "no_json", "int", "list", "empty", "nominal", "fenced", "nan", "big",
     "descent", "baro_far", "missing4", "lat_100", "m3_nominal", "m3_nan", "m3_jump",
     "missing2", "str_lat", "m3_climb", "m3_wrap"}

Reply(name) ==
    CASE name = "api_error" -> Text(TRUE, "invalid", FALSE, NoFields)
      [] name = "no_json" -> Text(FALSE, "invalid", FALSE, NoFields)
      [] name = "int" -> Text(FALSE, "int", FALSE, NoFields)
      [] name = "list" -> Text(FALSE, "list", FALSE, NoFields)
      [] name = "empty" -> Text(FALSE, "dict", FALSE, NoFields)
      [] name = "nominal" -> Text(FALSE, "dict", FALSE, Nominal)
      [] name = "fenced" -> Text(FALSE, "invalid", TRUE, Nominal)
      [] name = "nan" -> Text(FALSE, "dict", FALSE, [Nominal EXCEPT ![Latitude] = Scalar(NaN)])
      [] name = "big" -> Text(FALSE, "dict", FALSE, [Nominal EXCEPT ![Latitude] = Scalar(BigInt)])
      [] name = "descent" ->
            Text(FALSE, "dict", FALSE, [Nominal EXCEPT ![VerticalSpeed] = Scalar(Num(-3500)),
                                                       ![GPSAltitude] = Scalar(Num(1400))])
      [] name = "baro_far" ->
            Text(FALSE, "dict", FALSE, [Nominal EXCEPT ![BaroAltitude] = Scalar(Num(4500))])
      [] name = "missing4" ->
            Text(FALSE, "dict", FALSE,
                 [f \in Fields |-> IF f \in {TurnRate, SlipSkid, NormalAcceleration,
                                             LateralAcceleration}
                                   THEN Absent ELSE Nominal[f]])
      [] name = "missing2" ->
            Text(FALSE, "dict", FALSE,
                 [f \in Fields |-> IF f \in {TurnRate, SlipSkid} THEN Absent ELSE Nominal[f]])
      [] name = "str_lat" -> Text(FALSE, "dict", FALSE, [Nominal EXCEPT ![Latitude] = Scalar(Str)])
      [] name = "lat_100" ->
            Text(FALSE, "dict", FALSE, [Nominal EXCEPT ![Latitude] = Scalar(Num(100))])
      [] name = "m3_nominal" -> Text(FALSE, "dict", FALSE, NominalM3)
      [] name = "m3_nan" ->
            Text(FALSE, "dict", FALSE,
                 [NominalM3 EXCEPT ![Latitude] =
                     List([i \in 1..ArrLen |-> IF i = 1 THEN NaN ELSE Num(40)])])
      [] name = "m3_jump" ->
            Text(FALSE, "dict", FALSE,
                 [NominalM3 EXCEPT ![GPSAltitude] =
                     List([i \in 1..ArrLen |-> Num(1000 + 700 * (i - 1))])])
      [] name = "m3_climb" ->
            Text(FALSE, "dict", FALSE,
                 [NominalM3 EXCEPT ![GPSAltitude] =
                     List([i \in 1..ArrLen |->
                              Num(IF i = 1 THEN 1000 ELSE IF i = 2 THEN 1300 ELSE 2000)])])
      [] name = "m3_wrap" ->
            Text(FALSE, "dict", FALSE,
                 [NominalM3 EXCEPT ![GroundTrack] =
                     List([i \in 1..ArrLen |-> Num(IF i % 2 = 1 THEN 359 ELSE 1)])])

\* The replies holding an array of ArrLen steps for every field.
M3Replies == {"m3_nominal", "m3_nan", "m3_jump", "m3_climb", "m3_wrap"}

\* The samples of the runs: (model, task, reply).
Inputs ==
    ({"model_a"} \X {"S1"} \X (ReplyNames \ M3Replies))
    \cup ({"model_a"} \X {"M3"} \X M3Replies)
    \cup ({"model_a", "model_b"} \X {"M1"} \X {"nominal", "descent"})

\* is_api_error(response)
is_api_error(text) == text.keyword

\* extract_json_from_response(response): the kind of what it returns
extract_json_from_response(text) ==
    IF text.whole # "invalid" THEN text.whole
    ELSE IF text.inner THEN "dict"
    ELSE "none"

-----------------------------------------------------------------------------
(* FLYEvalPlusPlus.evaluate_sample *)

Dimensions == {Dimension[i] : i \in 1..Len(Dimension)}

NoTrace == [config_version |-> "absent", config_hash |-> "absent",
            schema_version |-> "absent", constraint_lib_version |-> "absent",
            timestamp |-> -1]

\* The outcome of an evaluate_sample call: kind "record" (the Record returned)
\* or "raised" (an error left the call).  executed and gate_called log the
\* verify() calls that returned and whether fusion.gate was reached.
NoOutcome ==
    [kind |-> "none", model |-> "", task |-> "", reply |-> "",
     executed |-> <<>>, gate_called |-> FALSE, atoms |-> <<>>,
     parsing_success |-> FALSE, parsing_error |-> "", provided |-> 0,
     checklist |-> <<>>,
     adjudication |-> "absent", attribution |-> <<>>,
     has_scores |-> FALSE, grade_vector |-> [d \in Dimensions |-> "absent"],
     overall_grade |-> "absent", gating_failed |-> FALSE, trace |-> NoTrace]

\* The hashes of the trace: sha256 of the configuration, of the required
\* fields with the task type, and of the constraint library's keys.
config_hash == "sha256(config)"
schema_hash(task) == "sha256(required_fields," \o task \o ")"
constraint_lib_hash == "sha256(constraint_lib)"

\* The Record of the API-error branch.
ApiErrorRecord(model, task, reply) ==
    [NoOutcome EXCEPT !.kind = "record", !.model = model, !.task = task, !.reply = reply,
                      !.parsing_error = "API error",
                      !.trace = [NoTrace EXCEPT !.config_version = "1.0.0"]]

\* A variant of step 7 that never commits the sample's predictions.
UpdatePreviousNever(prev_pred, json, fm) == prev_pred

\* previous_predictions[model] after step 7: every required field present in a
\* truthy json_data is overwritten.
UpdatePrevious(prev_pred, json, fm) ==
    IF json = "dict" /\ \E f \in Fields : fm[f].present
    THEN [f \in Fields |-> IF fm[f].present THEN fm[f] ELSE prev_pred[f]]
    ELSE prev_pred

\* Steps 5 to 8 of evaluate_sample: the Record built from the evidence.
BuildRecord(model, task, reply, now, json, fm, executed, evidence_atoms, grade_vector) ==
    [kind |-> "record", model |-> model, task |-> task, reply |-> reply,
     executed |-> executed, gate_called |-> TRUE, atoms |-> evidence_atoms,
     parsing_success |-> json # "none",
     parsing_error |-> IF json = "dict" /\ \E f \in Fields : fm[f].present
                       THEN "None" ELSE "JSON parsing failed",
     provided |-> _calculate_completeness(json, fm),
     checklist |-> organize_verification_workflow(generate_checklist(verifier_capabilities),
                                                  evidence_atoms),
     adjudication |-> Adjudication(evidence_atoms),
     attribution |-> Attribution(evidence_atoms),
     has_scores |-> TRUE,
     grade_vector |-> grade_vector,
     overall_grade |-> OverallGrade(grade_vector),
     gating_failed |-> ~gate(evidence_atoms),
     trace |-> [config_version |-> "1.0.0", config_hash |-> config_hash,
                schema_version |-> schema_hash(task),
                constraint_lib_version |-> constraint_lib_hash,
                timestamp |-> now]]

\* evaluate_sample from step 4 on, st being what VerifierGraph.execute did.
AfterExecute(previous, model, task, reply, now, json, fm, st) ==
    IF st.raised
    THEN [outcome |-> [NoOutcome EXCEPT !.kind = "raised", !.model = model, !.task = task,
                                        !.reply = reply, !.executed = st.executed],
          counters |-> st.counters, previous |-> previous]
    ELSE [outcome |-> BuildRecord(model, task, reply, now, json, fm, st.executed, st.all_evidence,
                                  GradeVector(st.all_evidence, json # "none",
                                              _calculate_completeness(json, fm))),
          counters |-> st.counters,
          previous |-> [previous EXCEPT ![model] = UpdatePrevious(previous[model], json, fm)]]

\* evaluate_sample with the aligned rule-based fusion: the outcome, and the
\* evidence counters and previous predictions the call leaves behind.
evaluate_sample(counters, previous, model, task, reply, now) ==
    IF is_api_error(Reply(reply))
    THEN [outcome |-> ApiErrorRecord(model, task, reply),
          counters |-> counters, previous |-> previous]
    ELSE AfterExecute(previous, model, task, reply, now,
                      extract_json_from_response(Reply(reply)), Reply(reply).fm,
                      execute(counters, extract_json_from_response(Reply(reply)), Reply(reply).fm,
                              previous[model], task))

-----------------------------------------------------------------------------
(* LLMJudge: the adjudicator of the LLM-based fusion *)

\* LLMJudge.max_retries as config.get('max_retries', 3) sets it
max_retries == 3

\* dict.get(key, default) on a dict given as a function
Get(d, key, default) == IF key \in DOMAIN d THEN d[key] ELSE default

\* The samples the judge is asked about, by the reply that was evaluated: the
\* evidence atoms of the reply and parsing.success of its protocol result.
JudgeCases == {"nan", "descent", "no_json"}

JudgeEvidence ==
    [c \in JudgeCases |->
        execute([v \in VerifierIds |-> 0], extract_json_from_response(Reply(c)),
                Reply(c).fm, NoFields, "S1").all_evidence]

JudgeParsing == [c \in JudgeCases |-> extract_json_from_response(Reply(c)) # "none"]

\* The atom types of the evidence, and the counters _build_evidence_summary
\* keeps for one type.
TypesOf(evidence_atoms) == {evidence_atoms[i].type : i \in 1..Len(evidence_atoms)}

TypeSummary(evidence_atoms, type) ==
    [critical_count |->
        Cardinality({i \in 1..Len(evidence_atoms) :
            evidence_atoms[i].type = type /\ evidence_atoms[i].severity = "critical"}),
     pass_count |-> CountPass(evidence_atoms, type),
     fail_count |-> CountFail(evidence_atoms, type)]

\* LLMJudge._build_evidence_summary: a dict with the keys parsing,
\* field_completeness and evidence_by_type.
_build_evidence_summary(evidence_atoms, parsing_success) ==
    [k \in {"parsing", "field_completeness", "evidence_by_type"} |->
        CASE k = "parsing" -> [success |-> parsing_success]
          [] k = "field_completeness" -> <<>>
          [] OTHER -> [t \in TypesOf(evidence_atoms) |-> TypeSummary(evidence_atoms, t)]]

\* MONOTONICITY_CHECKS[rule_name]["check"](evidence_summary, grade)
MONOTONICITY_CHECKS(rule_name, evidence_summary, grade) ==
    CASE rule_name = "protocol_fail_blocks_high_grade" ->
            \/ ~(\/ Get(Get(evidence_summary, "parsing", <<>>), "success", TRUE) = FALSE
                 \/ Get(Get(evidence_summary, "numeric_validity", <<>>), "critical_count", 0) > 0)
            \/ grade \notin {"A", "B"}
      [] rule_name = "safety_critical_blocks_high_grade" ->
            \/ ~(Get(Get(evidence_summary, "safety_constraint", <<>>), "critical_count", 0) > 0)
            \/ grade \notin {"A", "B"}
      [] OTHER ->
            \/ ~(/\ Get(Get(evidence_summary, "conditional_error", <<>>), "mae_score", 100) < 50
                 /\ Get(Get(evidence_summary, "reliability", <<>>), "overconfident", FALSE))
            \/ grade # "A"

\* LLMJudge._validate_monotonicity: is_valid
_validate_monotonicity(evidence_summary, grade_vector) ==
    /\ MONOTONICITY_CHECKS("protocol_fail_blocks_high_grade", evidence_summary,
                           grade_vector[PROTOCOL_SCHEMA])
    /\ MONOTONICITY_CHECKS("safety_critical_blocks_high_grade", evidence_summary,
                           grade_vector[SAFETY_CONSTRAINT])
    /\ MONOTONICITY_CHECKS("high_error_blocks_high_quality_grade", evidence_summary,
                           grade_vector[PREDICTIVE_QUALITY])

\* What the LLM can answer.  json is what json.loads makes of the text:
\* "invalid" (no JSON), "null" (a JSON value that is no container) or
\* "object"; complete says the five required keys are there; grade is the
\* grade given to every dimension and as overall grade; findings are the
\* critical_findings, each a dict with evidence_ids or a bare string.
Answer(json, complete, grade, findings) ==
    [json |-> json, complete |-> complete, grade |-> grade, findings |-> findings]

Finding(evidence_ids) == [dict |-> TRUE, evidence_ids |-> evidence_ids]

LLMTexts ==
    {"all_a", "all_c", "bad_cite", "not_json", "null", "missing", "bad_grade", "str_finding"}

LLMText(name) ==
    CASE name = "all_a" -> Answer("object", TRUE, "A", <<>>)
      [] name = "all_c" -> Answer("object", TRUE, "C", <<Finding(<<<<"NUMERIC_VALIDITY", 1>>>>)>>)
      [] name = "bad_cite" -> Answer("object", TRUE, "C", <<Finding(<<<<"NUMERIC_VALIDITY", 0>>>>)>>)
      [] name = "not_json" -> Answer("invalid", FALSE, "", <<>>)
      [] name = "null" -> Answer("null", FALSE, "", <<>>)
      [] name = "missing" -> Answer("object", FALSE, "A", <<>>)
      [] name = "bad_grade" -> Answer("object", TRUE, "E", <<>>)
      [] name = "str_finding" ->
            Answer("object", TRUE, "C", <<[dict |-> FALSE, evidence_ids |-> <<>>]>>)

\* What _call_llm_api does on the successive attempts of one judge() call:
\* "error" (it raises), "empty" (no text) or the name of a text.
Transports ==
    {<<t>> : t \in LLMTexts}
    \cup {<<"error", "error", "error">>, <<"empty", "empty", "empty">>,
          <<"error", "error", "empty">>, <<"error", "all_c">>, <<"empty", "all_a">>}

\* The retry loop of judge(): returned says the loop's except branch returned
\* the fallback on the last attempt.
RECURSIVE Retry(_, _, _)
Retry(attempts, attempt, last_error) ==
    IF attempt > max_retries
    THEN [llm_response |-> "", last_error |-> last_error, returned |-> FALSE]
    ELSE LET a == IF attempt <= Len(attempts) THEN attempts[attempt] ELSE "error"
         IN  IF a = "error"
             THEN IF attempt = max_retries
                  THEN [llm_response |-> "", last_error |-> TRUE, returned |-> TRUE]
                  ELSE Retry(attempts, attempt + 1, TRUE)
             ELSE IF a = "empty" THEN Retry(attempts, attempt + 1, last_error)
             ELSE [llm_response |-> a, last_error |-> last_error, returned |-> FALSE]

\* The _call_llm_api calls the retry loop makes from the given attempt on: one
\* per iteration, until a call returns a text or the attempts run out.
RECURSIVE RetryCalls(_, _)
RetryCalls(attempts, attempt) ==
    IF attempt > max_retries THEN 0
    ELSE LET a == IF attempt <= Len(attempts) THEN attempts[attempt] ELSE "error"
         IN  IF a \in {"error", "empty"}
             THEN 1 + RetryCalls(attempts, attempt + 1)
             ELSE 1

\* LLMJudge._parse_llm_output: "ok", "ValueError" (caught by judge) or
\* "TypeError" (`field not in output` on a value that is no container)
_parse_llm_output(text) ==
    CASE text.json = "invalid" -> "ValueError"
      [] text.json = "null" -> "TypeError"
      [] ~text.complete -> "ValueError"
      [] text.grade \notin {"A", "B", "C", "D"} -> "ValueError"
      [] OTHER -> "ok"

\* LLMJudge._validate_evidence_citations: "ok", "invalid", or "AttributeError"
\* (finding.get on a finding that is no dict)
_validate_evidence_citations(text, evidence_atoms) ==
    IF \E i \in 1..Len(text.findings) : ~text.findings[i].dict
    THEN "AttributeError"
    ELSE IF \E i \in 1..Len(text.findings) : \E k \in 1..Len(text.findings[i].evidence_ids) :
               text.findings[i].evidence_ids[k]
                   \notin {evidence_atoms[n].id : n \in 1..Len(evidence_atoms)}
    THEN "invalid"
    ELSE "ok"

\* LLMJudge._build_cache_key: the hash of the evidence summary and task spec
\* (one task here, so the key names the sample the evidence is of).
_build_cache_key(case) == case

\* The JudgeOutput of a judge() call, or what left it ("raised").
NoJudgeOutput ==
    [kind |-> "none", grade_vector |-> [d \in Dimensions |-> ""], overall_grade |-> "",
     critical_findings |-> <<>>,
     judge_metadata |-> [model |-> "", evidence_hash |-> "", reason |-> "", response |-> ""]]

Raised(error) == [NoJudgeOutput EXCEPT !.kind = "raised", !.judge_metadata.reason = error]

\* The first k elements of a sequence (seq[:k])
Take(seq, k) == SubSeq(seq, 1, Min2(k, Len(seq)))

\* LLMJudge._fallback_judge, with the api_request_response entry judge() adds:
\* reason is the key it records and response the LLM text it had, if any.
_fallback_judge(evidence_atoms, reason, response) ==
    [kind |-> "output", grade_vector |-> [d \in Dimensions |-> "D"], overall_grade |-> "D",
     critical_findings |->
         Take([i \in 1..Len(SelectSeq(evidence_atoms, IsCriticalFailure)) |->
                  <<SelectSeq(evidence_atoms, IsCriticalFailure)[i].id>>], 5),
     judge_metadata |-> [model |-> "fallback", evidence_hash |-> "None", reason |-> reason,
                         response |-> response]]

\* The JudgeOutput built from a validated LLM answer.
JudgeOutput(name, cache_key) ==
    [kind |-> "output", grade_vector |-> [d \in Dimensions |-> LLMText(name).grade],
     overall_grade |-> LLMText(name).grade,
     critical_findings |->
         [i \in 1..Len(LLMText(name).findings) |-> LLMText(name).findings[i].evidence_ids],
     judge_metadata |-> [model |-> "gpt-4o", evidence_hash |-> cache_key, reason |-> "none",
                         response |-> name]]

\* judge() from "Parse and validate" on, llm_response being the LLM's text.
Validate(evidence_atoms, parsing_success, cache_key, llm_response) ==
    IF _parse_llm_output(LLMText(llm_response)) = "TypeError" THEN Raised("TypeError")
    ELSE IF _parse_llm_output(LLMText(llm_response)) = "ValueError"
    THEN _fallback_judge(evidence_atoms, "parse_error", llm_response)
    ELSE IF ~_validate_monotonicity(
                 _build_evidence_summary(evidence_atoms, parsing_success),
                 [d \in Dimensions |-> LLMText(llm_response).grade])
    THEN _fallback_judge(evidence_atoms, "monotonicity_errors", llm_response)
    ELSE IF _validate_evidence_citations(LLMText(llm_response), evidence_atoms)
            = "AttributeError"
    THEN Raised("AttributeError")
    ELSE IF _validate_evidence_citations(LLMText(llm_response), evidence_atoms) = "invalid"
    THEN _fallback_judge(evidence_atoms, "citation_errors", llm_response)
    ELSE JudgeOutput(llm_response, cache_key)

\* judge() after the cache lookup missed: r is what the retry loop did.
AfterRetry(evidence_atoms, parsing_success, cache_key, r) ==
    IF r.returned THEN _fallback_judge(evidence_atoms, "error", "")
    ELSE IF r.llm_response = ""
    THEN _fallback_judge(evidence_atoms, IF r.last_error THEN "error" ELSE "No response", "")
    ELSE Validate(evidence_atoms, parsing_success, cache_key, r.llm_response)

\* What judge() stores: only a validated LLM answer reaches the cache.
Store(cache, cache_key, out) ==
    IF out.kind = "output" /\ out.judge_metadata.model # "fallback"
    THEN [k \in DOMAIN cache \cup {cache_key} |-> IF k = cache_key THEN out ELSE cache[k]]
    ELSE cache

\* A judge() call: the sample, what the LLM transport did, whether the cache
\* answered, the _call_llm_api calls it made, and the output.
NoJudgeCall ==
    [case |-> "", attempts |-> <<>>, cached |-> FALSE, calls |-> 0, output |-> NoJudgeOutput]

\* LLMJudge.judge: what the call returns (or raises) and the cache after it.
judge(cache, evidence_atoms, parsing_success, cache_key, attempts) ==
    IF cache_key \in DOMAIN cache
    THEN [output |-> cache[cache_key], cache |-> cache, cached |-> TRUE, calls |-> 0]
    ELSE [output |-> AfterRetry(evidence_atoms, parsing_success, cache_key,
                                Retry(attempts, 1, FALSE)),
          cache |-> Store(cache, cache_key,
                          AfterRetry(evidence_atoms, parsing_success, cache_key,
                                     Retry(attempts, 1, FALSE))),
          cached |-> FALSE, calls |-> RetryCalls(attempts, 1)]

\* A direct call of one of the program's functions: its name, its arguments
\* and what it returned.
NoCall == [op |-> "none", args |-> <<>>, result |-> <<>>]

-----------------------------------------------------------------------------
(* The state machine *)

InitCounters == [v \in VerifierIds |-> 0]
InitPrevious == [m \in Models |-> NoFields]

Init ==
    /\ evidence_counter = InitCounters
    /\ previous_predictions = InitPrevious
    /\ last = NoOutcome
    /\ prev = NoOutcome
    /\ n_samples = 0
    /\ n_records = 0
    /\ v2_counter = 0
    /\ v2_evidence = <<>>
    /\ _cache = [k \in {} |-> NoJudgeOutput]
    /\ judge_first = [c \in JudgeCases |-> NoJudgeOutput]
    /\ judge_last = NoJudgeCall
    /\ n_judged = 0
    /\ call = NoCall

\* The loop body after evaluate_sample: model_records.append(record) - or, when
\* the call raised, the except branch's `continue`.
Collect(r) ==
    /\ evidence_counter' = r.counters
    /\ previous_predictions' = r.previous
    /\ last' = r.outcome
    /\ prev' = last
    /\ n_samples' = n_samples + 1
    /\ n_records' = IF r.outcome.kind = "record" THEN n_records + 1 ELSE n_records

\* One iteration of the sample loop of DeterministicEvaluator.evaluate_all_models.
EvaluateSample(model, task, reply) ==
    /\ n_samples < MaxSamples
    /\ v2_counter = 0
    /\ Collect(evaluate_sample(evidence_counter, previous_predictions, model, task, reply,
                               n_samples))
    /\ UNCHANGED <<v2_counter, v2_evidence>>
    /\ UNCHANGED judge_vars
    /\ UNCHANGED call

\* DeterministicEvaluator.__init__: a fresh FLYEvalPlusPlus (new verifiers with
\* evidence_counter = 0, previous_predictions = {}) for the samples still to come.
NewEvaluator ==
    /\ evidence_counter # InitCounters \/ previous_predictions # InitPrevious
    /\ evidence_counter' = InitCounters
    /\ previous_predictions' = InitPrevious
    /\ UNCHANGED <<last, prev, n_samples, n_records, v2_counter, v2_evidence>>
    /\ UNCHANGED judge_vars
    /\ UNCHANGED call

\* The gold of the V2 checker's sample (sample.gold['next_second']) and the
\* predictions scored against it.
Gold ==
    [f \in Fields |->
        CASE f = IndicatedAirspeed -> Scalar(Num(100))
          [] f = GPSAltitude -> Scalar(Num(400))
          [] f = VerticalSpeed -> Scalar(Num(-2500))
          [] OTHER -> Nominal[f]]

Prediction(ias, alt, vs) ==
    [Nominal EXCEPT ![IndicatedAirspeed] = Scalar(ias), ![GPSAltitude] = Scalar(alt),
                    ![VerticalSpeed] = Scalar(vs)]

\* SafetyConstraintCheckerV2.verify on one prediction.  The checker is not
\* registered in the verifier graph: it is driven on its own instance, apart
\* from the evaluator's runs.
V2Verify(ias, alt, vs) ==
    /\ n_samples = 0
    /\ v2_counter < MaxV2Ids
    /\ LET r == VerifyRun("SAFETY_CONSTRAINT_V2", v2_counter,
                          SafetyConstraintV2Verify(Prediction(ias, alt, vs), Gold))
       IN  /\ v2_counter' = r.counter
           /\ v2_evidence' = IF r.raised THEN <<>> ELSE r.atoms
    /\ UNCHANGED <<evidence_counter, previous_predictions, last, prev, n_samples, n_records>>
    /\ UNCHANGED judge_vars
    /\ UNCHANGED call

Next ==
    \/ \E i \in Inputs : EvaluateSample(i[1], i[2], i[3])
    \/ NewEvaluator
    \/ \E ias \in {Num(100), Num(135), NaN}, alt \in {Num(400), Num(650)},
          vs \in {Num(-2500), Num(-1200)} : V2Verify(ias, alt, vs)

Spec == Init /\ [][Next]_vars

\* The calls of LLMBasedFusion.calculate_scores to its LLMJudge.
JudgeCollect(case, attempts, r) ==
    /\ _cache' = r.cache
    /\ judge_last' = [case |-> case, attempts |-> attempts, cached |-> r.cached,
                      calls |-> r.calls, output |-> r.output]
    /\ judge_first' = IF judge_first[case].kind = "none"
                      THEN [judge_first EXCEPT ![case] = r.output]
                      ELSE judge_first
    /\ n_judged' = n_judged + 1

Judge(case, attempts) ==
    /\ n_judged < MaxJudged
    /\ JudgeCollect(case, attempts,
                    judge(_cache, JudgeEvidence[case], JudgeParsing[case],
                          _build_cache_key(case), attempts))
    /\ UNCHANGED <<evidence_counter, previous_predictions, last, prev, n_samples, n_records,
                   v2_counter, v2_evidence, call>>

JudgeNext == \E case \in JudgeCases, attempts \in Transports : Judge(case, attempts)

JudgeSpec == Init /\ [][JudgeNext]_vars

-----------------------------------------------------------------------------
(* Direct calls of the scoring functions and of single rules, on inputs drawn *)
(* from bounded sets                                                          *)

Letters == {"A", "B", "C", "D"}

\* The scores a conditional error can carry (0-100), and the case without one.
ErrorScores == {0, 50, 90, 100}
ConditionalErrors ==
    {[eligible |-> FALSE, mae_score |-> 0, rmse_score |-> 0]}
    \cup {[eligible |-> TRUE, mae_score |-> m, rmse_score |-> r] : m, r \in ErrorScores}

\* The state the calls leave alone: each call is made on its own, on a
\* program that has done nothing else.
program_vars ==
    <<evidence_counter, previous_predictions, last, prev, n_samples, n_records,
      v2_counter, v2_evidence, _cache, judge_first, judge_last, n_judged>>

\* RuleBasedFusionAligned.calculate_scores on the grades of the four graded
\* dimensions and a conditional error.
CalculateScores(grade_vector, conditional_error) ==
    /\ call.op = "none"
    /\ call' = [op |-> "calculate_scores",
                args |-> <<grade_vector, conditional_error>>,
                result |-> calculate_scores(grade_vector, conditional_error)]
    /\ UNCHANGED program_vars

\* LLMBasedFusion.calculate_scores on the grade vector of a judge output.
LLMCalculateScores(grade_vector) ==
    /\ call.op = "none"
    /\ call' = [op |-> "llm_calculate_scores", args |-> <<grade_vector>>,
                result |-> llm_calculate_scores(grade_vector)]
    /\ UNCHANGED program_vars

\* Predictions for one verifier: GPS Altitude at a gap from the nominal Baro
\* Altitude, and Vertical Speed, as a scalar or as an array of 1..ArrLen steps
\* among nominal fields.
AltitudeGaps == {-3001, -2000, 0, 2000, 2001, 3000, 3001}
VerticalSpeeds == {-3001, -3000, -2001, -2000, -1999, 0}

Arrays(S) == UNION {[1..n -> S] : n \in 1..ArrLen}

ParityPredictions ==
    {[Nominal EXCEPT ![GPSAltitude] = Scalar(Num(NominalValue[BaroAltitude] + d))] :
        d \in AltitudeGaps}
    \cup {[NominalM3 EXCEPT ![GPSAltitude] =
              List([i \in DOMAIN ds |-> Num(NominalValue[BaroAltitude] + ds[i])])] :
          ds \in Arrays(AltitudeGaps)}

DescentPredictions ==
    {[Nominal EXCEPT ![VerticalSpeed] = Scalar(Num(v))] : v \in VerticalSpeeds}
    \cup {[NominalM3 EXCEPT ![VerticalSpeed] = List([i \in DOMAIN vs |-> Num(vs[i])])] :
          vs \in Arrays(VerticalSpeeds)}

\* verify() of one verifier of the graph on a parsed prediction, with a fresh
\* evidence counter.
VerifierCall(verifier_id, fm, task_type) ==
    /\ call.op = "none"
    /\ call' = [op |-> verifier_id, args |-> <<fm>>,
                result |-> VerifyRun(verifier_id, 0,
                                     Verify(verifier_id, "dict", fm, NoFields, task_type)).atoms]
    /\ UNCHANGED program_vars

\* Evidence populations for _determine_grade: p passing atoms, c failing
\* critical atoms and w failing warning atoms of one evidence type.
MaxFailing == 2
Population(type, p, c, w) ==
    [i \in 1..(p + c + w) |->
        IF i <= p THEN Atom(type, "", -1, TRUE, "info", "field", Zero)
        ELSE IF i <= p + c THEN Atom(type, "", -1, FALSE, "critical", "field", Zero)
        ELSE Atom(type, "", -1, FALSE, "warning", "field", Zero)]

Populations ==
    {Population(type, p, c, w) :
        type \in {"numeric_validity", "safety_constraint"},
        p \in 0..MaxPassing, c \in 0..MaxFailing, w \in 0..MaxFailing}

\* RuleBasedFusionAligned._determine_grade on the counts of an evidence
\* population and a protocol result.
DetermineGrade(dimension, evidence_atoms, parsing_success, provided) ==
    /\ call.op = "none"
    /\ call' = [op |-> "_determine_grade",
                args |-> <<dimension, evidence_atoms, parsing_success, provided>>,
                result |-> _determine_grade(dimension, evidence_atoms, parsing_success,
                                            provided)]
    /\ UNCHANGED program_vars

\* Predictions for the Range-Sanity checker: Latitude (limits -90 and 90) as a
\* scalar or as an array of 1..ArrLen values among nominal fields - values on
\* the bounds, inside, outside by at most half the width of the range, outside
\* by more, and a string.
LatitudeValues == {Num(-90), Num(40), Num(90), Num(100), Num(180), Num(181), Str}

RangePredictions ==
    {[Nominal EXCEPT ![Latitude] = Scalar(v)] : v \in LatitudeValues}
    \cup {[NominalM3 EXCEPT ![Latitude] = List(vs)] : vs \in Arrays(LatitudeValues)}

\* Predictions for the Numeric-Validity checker: Latitude absent, a scalar or
\* an array of 1..ArrLen values among nominal fields - a finite number, NaN,
\* infinity, null, a string that is no number and an integer beyond the
\* range of a float.
NumericValues == {Num(40), NaN, Inf, Null, Str, BigInt}

NumericPredictions ==
    {[Nominal EXCEPT ![Latitude] = Absent]}
    \cup {[Nominal EXCEPT ![Latitude] = Scalar(v)] : v \in NumericValues}
    \cup {[NominalM3 EXCEPT ![Latitude] = List(vs)] : vs \in Arrays(NumericValues)}

CallNext ==
    \/ \E grade_vector \in [Dimensions -> Letters], conditional_error \in ConditionalErrors :
          /\ grade_vector[PREDICTIVE_QUALITY] = "D"
          /\ CalculateScores(grade_vector, conditional_error)
    \/ \E grade_vector \in [Dimensions -> Letters] : LLMCalculateScores(grade_vector)
    \/ \E fm \in ParityPredictions :
          VerifierCall("CROSS_FIELD_CONSISTENCY", fm, IF fm[GPSAltitude].list THEN "M3" ELSE "S1")
    \/ \E fm \in DescentPredictions :
          VerifierCall("SAFETY_CONSTRAINT", fm, IF fm[VerticalSpeed].list THEN "M3" ELSE "S1")
    \/ \E fm \in NumericPredictions :
          VerifierCall("NUMERIC_VALIDITY", fm, IF fm[Latitude].list THEN "M3" ELSE "S1")
    \/ \E fm \in RangePredictions :
          VerifierCall("RANGE_SANITY", fm, IF fm[Latitude].list THEN "M3" ELSE "S1")
    \/ \E dimension \in {PROTOCOL_SCHEMA, SAFETY_CONSTRAINT}, evidence_atoms \in Populations,
          parsing_success \in BOOLEAN, provided \in {Len(required_fields) - 4,
                                                    Len(required_fields)} :
          DetermineGrade(dimension, evidence_atoms, parsing_success, provided)

CallSpec == Init /\ [][CallNext]_vars

-----------------------------------------------------------------------------
(* Properties of the evidence, the Records and the run *)

EvidenceTypes ==
    {"numeric_validity", "range_sanity", "jump_dynamics", "cross_field_consistency",
     "physics_constraint", "safety_constraint"}

SeverityAgrees(a) ==
    /\ a.pass_ => a.severity = "info"
    /\ ~a.pass_ => a.severity \in {"warning", "critical"}

\* C1: every evidence atom emitted by any verifier (the six of the graph and
\* the error-based safety checker V2) has severity info when its pass flag is
\* true, and severity warning or critical when its pass flag is false.
C1_PassMatchesSeverity ==
    /\ \A i \in 1..Len(last.atoms) : SeverityAgrees(last.atoms[i])
    /\ \A i \in 1..Len(v2_evidence) : SeverityAgrees(v2_evidence[i])

\* A Record with atoms of all six verifiers, among them a passing atom, a
\* failing warning atom and a failing critical atom.
C1_Witness ==
    /\ last.kind = "record"
    /\ \A t \in EvidenceTypes : \E i \in 1..Len(last.atoms) : last.atoms[i].type = t
    /\ \E i \in 1..Len(last.atoms) : last.atoms[i].pass_
    /\ \E i \in 1..Len(last.atoms) : IsWarningFailure(last.atoms[i])
    /\ \E i \in 1..Len(last.atoms) : IsCriticalFailure(last.atoms[i])

EvidenceIds(atoms) == {atoms[i].id : i \in 1..Len(atoms)}

\* C2: in every Record evaluate_sample returns, whatever calls the evaluator
\* served before, no two atoms share an ID, every attribution entry lists at
\* least one evidence ID, and every ID it lists is that of an atom of the
\* same Record.
C2_IdsUniqueAndResolve ==
    last.kind = "record" =>
        /\ Cardinality(EvidenceIds(last.atoms)) = Len(last.atoms)
        /\ \A k \in 1..Len(last.attribution) :
              /\ last.attribution[k].evidence_ids # <<>>
              /\ \A j \in 1..Len(last.attribution[k].evidence_ids) :
                    last.attribution[k].evidence_ids[j] \in EvidenceIds(last.atoms)

\* A Record with two attribution entries whose first evidence ID is not the
\* verifier's first: the evaluator had served an earlier call.
C2_Witness ==
    /\ last.kind = "record"
    /\ prev.kind = "record"
    /\ Len(last.attribution) >= 2
    /\ last.atoms # <<>>
    /\ last.atoms[1].id[2] > 1

\* Two Records agree apart from the timestamp of their trace.
SameRecord(a, b) == [a EXCEPT !.trace.timestamp = 0] = [b EXCEPT !.trace.timestamp = 0]

\* C3: idempotence - two evaluations of the same sample and model output give
\* identical Records apart from the timestamp (same evidence IDs in the same
\* order, same jump_dynamics atoms), on a fresh evaluator or on the same one.
C3_Idempotent ==
    (/\ prev.kind = "record" /\ last.kind = "record"
     /\ prev.model = last.model /\ prev.task = last.task /\ prev.reply = last.reply)
    => SameRecord(prev, last)

\* Every verifier of the sequence comes after all the verifiers it depends on.
DependenciesFirst(executed) ==
    \A i \in 1..Len(executed) :
        \A k \in 1..Len(dependencies[executed[i]]) :
            \E j \in 1..(i - 1) : executed[j] = dependencies[executed[i]][k]

\* The position of a verifier in the sequence, 0 if it is not in it.
Position(executed, v) ==
    IF \E i \in 1..Len(executed) : executed[i] = v
    THEN CHOOSE i \in 1..Len(executed) : executed[i] = v
    ELSE 0

\* C4: for a reply that is no transport error, each of the six verifiers runs
\* exactly once and after the verifiers it depends on, the evidence is in
\* execution order, and all six have completed when gate() is called.
C4_EveryVerifierOnce ==
    (last.kind # "none" /\ ~is_api_error(Reply(last.reply))) =>
        /\ Len(last.executed) = Len(verifiers)
        /\ {last.executed[i] : i \in 1..Len(last.executed)} = VerifierIds
        /\ DependenciesFirst(last.executed)
        /\ \A i, j \in 1..Len(last.atoms) :
              i < j => Position(last.executed, last.atoms[i].id[1])
                       <= Position(last.executed, last.atoms[j].id[1])
        /\ last.gate_called

\* C5: a Record's verdict is ineligible exactly if a failing critical atom
\* exists, or parsing did not succeed, or the completeness rate is below 80;
\* so a reply without JSON (no transport error) is ineligible.
C5_Verdict ==
    (last.kind = "record" /\ ~is_api_error(Reply(last.reply))) =>
        (last.adjudication = "ineligible" <=>
            \/ \E i \in 1..Len(last.atoms) : IsCriticalFailure(last.atoms[i])
            \/ ~last.parsing_success
            \/ last.provided * 100 < 80 * Len(required_fields))

\* C6: a reply that is a transport error or cannot be parsed is emitted
\* directly: no verifier runs, and the Record has empty evidence, the verdict
\* ineligible and grade D in all five dimensions.
C6_DirectEmit ==
    (/\ last.kind # "none"
     /\ \/ is_api_error(Reply(last.reply))
        \/ extract_json_from_response(Reply(last.reply)) = "none")
    => /\ last.kind = "record"
       /\ last.executed = <<>>
       /\ last.atoms = <<>>
       /\ last.adjudication = "ineligible"
       /\ \A d \in Dimensions : last.grade_vector[d] = "D"

\* C7: a run emits exactly one Record for every input sample; an error raised
\* while a sample is evaluated is absorbed into a Record for it.
C7_OneRecordPerSample == n_records = n_samples

TraceHashes(o) ==
    <<o.trace.config_hash, o.trace.schema_version, o.trace.constraint_lib_version>>

\* C8: every Record, on every path including the transport-error path, has
\* the configuration, schema and constraint-library hashes in its trace, the
\* same three for every Record of one run with one task.
C8_TraceHashes ==
    /\ last.kind = "record" =>
          \A i \in 1..3 : TraceHashes(last)[i] # "absent"
    /\ (last.kind = "record" /\ prev.kind = "record" /\ last.task = prev.task) =>
          TraceHashes(last) = TraceHashes(prev)

\* C9: when a verifier raises, its output becomes one failing critical atom,
\* the other verifiers still run and evaluate_sample still returns a Record:
\* no evaluate_sample call is left by a verifier's error.
C9_VerifierErrorAbsorbed ==
    last.kind # "none" =>
        /\ last.kind = "record"
        /\ ~is_api_error(Reply(last.reply)) => Len(last.executed) = Len(verifiers)

\* C10: under the rule-based fusion, a Record whose parsing failed or that has
\* a failing critical numeric_validity atom has Protocol-Schema grade C or D,
\* and one with a failing critical safety_constraint atom has
\* Safety-Constraint grade C or D.
C10_CriticalCapsGrade ==
    (last.kind = "record" /\ last.has_scores) =>
        /\ (\/ ~last.parsing_success
            \/ \E i \in 1..Len(last.atoms) :
                  last.atoms[i].type = "numeric_validity" /\ IsCriticalFailure(last.atoms[i]))
           => last.grade_vector[PROTOCOL_SCHEMA] \in {"C", "D"}
        /\ (\E i \in 1..Len(last.atoms) :
                  last.atoms[i].type = "safety_constraint" /\ IsCriticalFailure(last.atoms[i]))
           => last.grade_vector[SAFETY_CONSTRAINT] \in {"C", "D"}

-----------------------------------------------------------------------------
(* Properties of the LLM judge *)

\* The number of critical atoms of one type in the evidence
CriticalCount(evidence_atoms, type) ==
    Cardinality({i \in 1..Len(evidence_atoms) :
        evidence_atoms[i].type = type /\ evidence_atoms[i].severity = "critical"})

\* The monotonicity rules on the evidence itself: a failed protocol (parsing
\* failed or a critical numeric_validity atom) forbids Protocol A or B, a
\* critical safety_constraint atom forbids Safety A or B.
Monotone(evidence_atoms, parsing_success, grade_vector) ==
    /\ (~parsing_success \/ CriticalCount(evidence_atoms, "numeric_validity") > 0)
           => grade_vector[PROTOCOL_SCHEMA] \notin {"A", "B"}
    /\ CriticalCount(evidence_atoms, "safety_constraint") > 0
           => grade_vector[SAFETY_CONSTRAINT] \notin {"A", "B"}

\* C11: the grade vector judge() returns never violates monotonicity: with a
\* critical numeric_validity atom or failed parsing the Protocol grade is not
\* A or B, with a critical safety_constraint atom the Safety grade is not A
\* or B.
C11_JudgeMonotone ==
    judge_last.output.kind = "output"
        => Monotone(JudgeEvidence[judge_last.case], JudgeParsing[judge_last.case],
                    judge_last.output.grade_vector)

\* The text one judge() call gets from the transport: the first text among
\* its max_retries attempts, "" when every attempt errors or gives no text.
FirstText(attempts) ==
    LET texts == {i \in 1..Min2(Len(attempts), max_retries) :
                      attempts[i] \notin {"error", "empty"}}
    IN  IF texts = {} THEN ""
        ELSE attempts[CHOOSE i \in texts : \A k \in texts : i <= k]

\* LLM adjudication fails: no text, malformed or schema-incomplete JSON, a
\* citation of an evidence ID that is not in the evidence, or a grade vector
\* that violates monotonicity.
AdjudicationFails(evidence_atoms, parsing_success, text) ==
    \/ text = ""
    \/ LLMText(text).json # "object"
    \/ ~LLMText(text).complete
    \/ LLMText(text).grade \notin {"A", "B", "C", "D"}
    \/ \E i \in 1..Len(LLMText(text).findings) :
          \/ ~LLMText(text).findings[i].dict
          \/ \E k \in 1..Len(LLMText(text).findings[i].evidence_ids) :
                LLMText(text).findings[i].evidence_ids[k] \notin EvidenceIds(evidence_atoms)
    \/ ~Monotone(evidence_atoms, parsing_success,
                 [d \in Dimensions |-> LLMText(text).grade])

\* The deterministic fallback: D everywhere, findings only from critical
\* failing atoms, each citing the atom's ID, and a failure reason recorded.
IsFallback(evidence_atoms, out) ==
    /\ out.kind = "output"
    /\ \A d \in Dimensions : out.grade_vector[d] = "D"
    /\ out.overall_grade = "D"
    /\ \A i \in 1..Len(out.critical_findings) :
          \E n \in 1..Len(evidence_atoms) :
             /\ IsCriticalFailure(evidence_atoms[n])
             /\ out.critical_findings[i] = <<evidence_atoms[n].id>>
    /\ out.judge_metadata.reason # "none"

\* C12: whenever LLM adjudication fails, the judge() call that asked the LLM
\* returns the deterministic fallback and no exception leaves it.
C12_FailureFallsBack ==
    (/\ judge_last.case # ""
     /\ ~judge_last.cached
     /\ AdjudicationFails(JudgeEvidence[judge_last.case], JudgeParsing[judge_last.case],
                          FirstText(judge_last.attempts)))
        => IsFallback(JudgeEvidence[judge_last.case], judge_last.output)

\* C13: a judge() call on a sample the same LLMJudge has judged before
\* returns the output of the first call verbatim, metadata included,
\* whatever the transport answers this time.
C13_SecondCallVerbatim ==
    judge_last.case # "" => judge_last.output = judge_first[judge_last.case]

-----------------------------------------------------------------------------
(* Properties of Jump-Dynamics and the previous predictions *)

\* The jump_dynamics atoms of one field
JumpAtoms(atoms, field) ==
    {i \in 1..Len(atoms) : atoms[i].type = "jump_dynamics" /\ atoms[i].field = field}

\* A step that evaluates a sample and returns its Record
Evaluates == n_samples' = n_samples + 1 /\ last'.kind = "record"

C15_CommitAtEnd ==
    [][n_samples' = n_samples + 1 =>
          /\ \A m \in Models, f \in Fields :
                previous_predictions'[m][f] =
                    IF /\ last'.kind = "record" /\ m = last'.model
                       /\ Reply(last'.reply).fm[f].present
                    THEN Reply(last'.reply).fm[f]
                    ELSE previous_predictions[m][f]
          /\ (last'.kind = "record" /\ last'.task # "M3") =>
                \A f \in Fields :
                   /\ JumpAtoms(last'.atoms, f) # {}
                         <=> (/\ Reply(last'.reply).fm[f].present
                              /\ ~IsNone(previous_predictions[last'.model][f]))
                   /\ \A i \in JumpAtoms(last'.atoms, f) :
                         last'.atoms[i].m =
                             check_mutation(f, previous_predictions[last'.model][f],
                                            Reply(last'.reply).fm[f], last'.task).change]_vars

\* Two S1 samples of one model, GPS Altitude 1000 then 1400: the second
\* sample's altitude atom reports the change 400 from the first, and the map
\* now holds 1400.
C15_Witness ==
    /\ prev.kind = "record" /\ prev.reply = "nominal" /\ prev.task = "S1"
    /\ last.kind = "record" /\ last.reply = "descent" /\ last.task = "S1"
    /\ last.model = prev.model
    /\ \E i \in JumpAtoms(last.atoms, GPSAltitude) :
          last.atoms[i].m = [c |-> "fin", n |-> 400]
    /\ previous_predictions[last.model][GPSAltitude] = Scalar(Num(1400))

-----------------------------------------------------------------------------
(* Properties of the scores *)

\* The score of a letter, in hundredths: A 1.0, B 0.75, C 0.5, D 0.0
LetterScore(g) == CASE g = "A" -> 100 [] g = "B" -> 75 [] g = "C" -> 50 [] g = "D" -> 0

\* C16: letters become scores by A 1.0, B 0.75, C 0.5, D 0.0; the overall
\* score is the arithmetic mean of the five dimension scores (total_score is
\* that mean times 100); and the deterministic adjudicator's overall letter
\* is A from a mean of 0.875, B from 0.625, C from 0.25, D below.
C16_ScoresAndOverall ==
    /\ call.op \in {"calculate_scores", "llm_calculate_scores"} =>
          /\ \A d \in Dimensions :
                call.result.grade_vector[d] \in Letters
                    => call.result.dimension_scores[d]
                           = LetterScore(call.result.grade_vector[d])
          /\ 5 * call.result.overall_score
                = 100 * SumScores(call.result.dimension_scores)
          /\ call.result.total_score = call.result.overall_score
    /\ call.op = "calculate_scores" =>
          call.result.overall_grade =
              CASE 5 * call.result.overall_score >= 5 * 8750 -> "A"
                [] 5 * call.result.overall_score \in (5 * 6250)..(5 * 8750 - 1) -> "B"
                [] 5 * call.result.overall_score \in (5 * 2500)..(5 * 6250 - 1) -> "C"
                [] OTHER -> "D"

\* Protocol A, Field B, Physics A, Safety A with a perfect conditional error:
\* the mean is 0.95 and the overall letter A; and a judge output of all B.
C16_Witness ==
    \/ /\ call.op = "calculate_scores"
       /\ call.result.grade_vector[FIELD_VALIDITY] = "B"
       /\ call.result.dimension_scores[PREDICTIVE_QUALITY] = 100
       /\ call.result.overall_score = 9500
       /\ call.result.overall_grade = "A"
    \/ /\ call.op = "llm_calculate_scores"
       /\ \A d \in Dimensions : call.result.grade_vector[d] = "B"
       /\ call.result.overall_score = 7500

-----------------------------------------------------------------------------
(* Properties of the Protocol-Schema grade and of single verifiers *)

\* The three requirements of a Protocol-Schema grade: the numeric_validity
\* failure rate is at most 0%, 5%, 15%, 100%; parsing succeeded (D allows a
\* failure); at least 100%, 100%, 90%, 80% of the required fields are present.
ProtocolRequirements(g, evidence_atoms, parsing_success, provided) ==
    LET fail == CountFail(evidence_atoms, "numeric_validity")
        total == CountPass(evidence_atoms, "numeric_validity") + fail
        max_rate == CASE g = "A" -> 0 [] g = "B" -> 5 [] g = "C" -> 15 [] OTHER -> 100
        min_present == CASE g = "A" -> 100 [] g = "B" -> 100 [] g = "C" -> 90 [] OTHER -> 80
    IN  /\ fail * 100 <= max_rate * total
        /\ parsing_success \/ g = "D"
        /\ provided * 100 >= min_present * Len(required_fields)

\* The best grade, tried in the order A, B, C, D, whose requirements hold; D
\* when none does.
BestProtocolGrade(evidence_atoms, parsing_success, provided) ==
    CASE ProtocolRequirements("A", evidence_atoms, parsing_success, provided) -> "A"
      [] ProtocolRequirements("B", evidence_atoms, parsing_success, provided) -> "B"
      [] ProtocolRequirements("C", evidence_atoms, parsing_success, provided) -> "C"
      [] OTHER -> "D"

\* C17: the Protocol-Schema grade of a scored Record is the best grade whose
\* three requirements hold - so a parsed reply that lacks more than 10% of
\* the required fields is graded D.
C17_ProtocolGrade ==
    (last.kind = "record" /\ last.has_scores) =>
        last.grade_vector[PROTOCOL_SCHEMA]
            = BestProtocolGrade(last.atoms, last.parsing_success, last.provided)

\* The atoms of one type for one field
FieldAtoms(atoms, type, field) ==
    {i \in 1..Len(atoms) : atoms[i].type = type /\ atoms[i].field = field}

\* The fields of the sample evaluated last whose value is present and is not
\* a finite number: a string or NaN.
NotFinite(reply) ==
    {f \in Fields : /\ Reply(reply).fm[f].present
                    /\ ~Reply(reply).fm[f].list
                    /\ Reply(reply).fm[f].vals[1].k \in {"str", "nan"}}

-----------------------------------------------------------------------------
(* Properties of the altitude-parity and rapid-descent rules *)

\* The atoms of one rule in a verifier's output, by the field they name
RuleAtoms(atoms, field) == SelectSeq(atoms, LAMBDA a : a.field = field)

\* The timestep an atom of step i of n records: none (-1) for a single value
Timestep(i, n) == IF n > 1 THEN i - 1 ELSE -1

\* The atoms of a rule for step i of n
StepAtoms(atoms, i, n) == {k \in 1..Len(atoms) : atoms[k].idx = Timestep(i, n)}

\* d = |GPS_alt - Baro_alt| at step i of a prediction of finite numbers
Gap(fm, i) == Abs(fm[GPSAltitude].vals[i].n - fm[BaroAltitude].vals[i].n)

RapidDescentAtoms(critical(_), warning(_)) ==
    LET fm == call.args[1]
        n == Len(fm[VerticalSpeed].vals)
        atoms == RuleAtoms(call.result, "Rapid_Descent")
    IN  /\ \A i \in 1..n :
              LET v == fm[VerticalSpeed].vals[i].n
              IN  /\ Cardinality(StepAtoms(atoms, i, n))
                         = IF critical(v) \/ warning(v) THEN 1 ELSE 0
                  /\ \A k \in StepAtoms(atoms, i, n) :
                        /\ ~atoms[k].pass_
                        /\ atoms[k].severity = IF critical(v) THEN "critical" ELSE "warning"
        /\ \A k \in 1..Len(call.result) :
              call.result[k].type = "safety_constraint" => ~call.result[k].pass_

\* C20 as stated: per timestep a failing critical atom iff v < -3000, a
\* failing warning atom iff v is in (-3000, -2000], no atom otherwise; no
\* safety_constraint atom passes.
C20_RapidDescent ==
    call.op = "SAFETY_CONSTRAINT" =>
        RapidDescentAtoms(LAMBDA v : v < -3000, LAMBDA v : v > -3000 /\ v <= -2000)

\* C20 amended: per timestep a failing critical atom iff v < -3000, a failing
\* warning atom iff v is in [-3000, -2000) (v = -3000 is a warning, v = -2000
\* gets no atom), no atom otherwise; no safety_constraint atom passes.
C20_RapidDescentHalfOpen ==
    call.op = "SAFETY_CONSTRAINT" =>
        RapidDescentAtoms(LAMBDA v : v < -3000, LAMBDA v : v >= -3000 /\ v < -2000)

\* An array of -3001, -3000 and -2000 fpm: a critical atom, a warning atom
\* and no atom for the third step.
C20_Witness ==
    /\ call.op = "SAFETY_CONSTRAINT"
    /\ call.args[1][VerticalSpeed].list
    /\ Len(call.args[1][VerticalSpeed].vals) >= 3
    /\ call.args[1][VerticalSpeed].vals[1].n = -3001
    /\ call.args[1][VerticalSpeed].vals[2].n = -3000
    /\ call.args[1][VerticalSpeed].vals[3].n = -2000
    /\ Len(RuleAtoms(call.result, "Rapid_Descent")) = 2
    /\ RuleAtoms(call.result, "Rapid_Descent")[1].severity = "critical"
    /\ RuleAtoms(call.result, "Rapid_Descent")[2].severity = "warning"

-----------------------------------------------------------------------------
\* The rank of a grade: A is the best.
GradeRank(g) == CASE g = "A" -> 4 [] g = "B" -> 3 [] g = "C" -> 2 [] OTHER -> 1

\* The population with the severity of its i-th atom changed to warning.
Relax(evidence_atoms, i) == [evidence_atoms EXCEPT ![i].severity = "warning"]

\* C21: for any evidence population, changing the severity of any failing atom
\* from critical to warning, everything else unchanged, never lowers the
\* Protocol-Schema grade or the Safety-Constraint grade of _determine_grade.
C21_SeverityMonotone ==
    call.op = "_determine_grade" =>
        \A i \in 1..Len(call.args[2]) :
            IsCriticalFailure(call.args[2][i]) =>
                GradeRank(_determine_grade(call.args[1], Relax(call.args[2], i),
                                           call.args[3], call.args[4]))
                    >= GradeRank(call.result)

\* A Safety-Constraint grade B from a population of ten atoms whose single
\* failure is critical.
C21_Witness ==
    /\ call.op = "_determine_grade"
    /\ call.args[1] = SAFETY_CONSTRAINT
    /\ Len(call.args[2]) = 10
    /\ \E i \in 1..Len(call.args[2]) : IsCriticalFailure(call.args[2][i])
    /\ call.result = "B"

-----------------------------------------------------------------------------
\* C22: for every reply text the parser yields a field mapping or a parse
\* failure: what evaluate_sample hands to the verifiers as json_data is never
\* a JSON value that is not a mapping (a bare number, a string, a list).
C22_ParserYieldsMapping ==
    (last.kind # "none" /\ ~is_api_error(Reply(last.reply))) =>
        extract_json_from_response(Reply(last.reply)) \in {"dict", "none"}

-----------------------------------------------------------------------------
\* What one value of a field with limits is to yield: a passing info atom for
\* a value inside the inclusive bounds, else a failing atom - critical for a
\* value that is no number, and for a number by its own normalized excess
\* d = |v - nearest_bound| / (upper - lower): critical if d > 0.5 else warning.
RangeExpected(field, v) ==
    LET lo == field_limits[field][1]
        hi == field_limits[field][2]
    IN  IF v.k # "num" THEN [pass_ |-> FALSE, severity |-> "critical"]
        ELSE IF v.n < lo
        THEN [pass_ |-> FALSE,
              severity |-> IF 2 * (lo - v.n) > hi - lo THEN "critical" ELSE "warning"]
        ELSE IF v.n > hi
        THEN [pass_ |-> FALSE,
              severity |-> IF 2 * (v.n - hi) > hi - lo THEN "critical" ELSE "warning"]
        ELSE [pass_ |-> TRUE, severity |-> "info"]

\* The range_sanity atoms of a field, in the order they were emitted.
RangeAtoms(atoms, field) ==
    LET Is(a) == a.type = "range_sanity" /\ a.field = field IN SelectSeq(atoms, Is)

\* C23: Range-Sanity emits one atom per present value - one per element of an
\* array - and each atom passes with severity info iff its value is inside the
\* inclusive bounds, else fails with the severity of that value's own excess
\* (critical for a value that is no number).
C23_RangePerValue ==
    call.op = "RANGE_SANITY" =>
        LET vals == call.args[1][Latitude].vals
            atoms == RangeAtoms(call.result, Latitude)
        IN  /\ Len(atoms) = Len(vals)
            /\ \A i \in 1..Len(vals) :
                   /\ atoms[i].pass_ = RangeExpected(Latitude, vals[i]).pass_
                   /\ atoms[i].severity = RangeExpected(Latitude, vals[i]).severity

\* The same for a scalar Latitude only.
C23_RangeScalar ==
    (call.op = "RANGE_SANITY" /\ ~call.args[1][Latitude].list) => C23_RangePerValue

-----------------------------------------------------------------------------
\* The numeric_validity atoms of a field, in the order they were emitted.
NumericAtoms(atoms, field) ==
    LET Is(a) == a.type = "numeric_validity" /\ a.field = field IN SelectSeq(atoms, Is)

\* A JSON value that is a finite real number.
IsFiniteReal(v) == v.k \in {"num", "big"}

\* Numeric-Validity on Latitude: one failing critical atom for an absent
\* field, else one atom per value, which passes iff the value is a finite
\* real, every failing atom being critical.
NumericPerValue(e, atoms) ==
    IF ~e.present
    THEN Len(atoms) = 1 /\ ~atoms[1].pass_ /\ atoms[1].severity = "critical"
    ELSE /\ Len(atoms) = Len(e.vals)
         /\ \A i \in 1..Len(e.vals) :
                /\ atoms[i].pass_ = IsFiniteReal(e.vals[i])
                /\ ~atoms[i].pass_ => atoms[i].severity = "critical"

\* C24: Numeric-Validity emits for every required field exactly one atom if
\* the field is absent (failing, critical) or a scalar and one per element if
\* it is an array; an atom fails iff its value is not a finite real, every
\* failing atom is critical and every finite value passes.
C24_NumericPerValue ==
    call.op = "NUMERIC_VALIDITY" =>
        NumericPerValue(call.args[1][Latitude], NumericAtoms(call.result, Latitude))

\* The same for the values float() converts: no integer beyond a float's range.
C24_NumericPerValueInFloatRange ==
    (/\ call.op = "NUMERIC_VALIDITY"
     /\ \A i \in 1..Len(call.args[1][Latitude].vals) :
            call.args[1][Latitude].vals[i].k # "big") => C24_NumericPerValue

-----------------------------------------------------------------------------
\* The adjacent-step changes of an array of numbers - circular for an angle
\* field - and the largest of them.
StepChanges(field, vals) == {Change(field, vals[i], vals[i - 1]).n : i \in 2..Len(vals)}

MaxStepChange(field, vals) ==
    CHOOSE d \in StepChanges(field, vals) : \A x \in StepChanges(field, vals) : x <= d

\* The array fields of the M3 reply evaluated last that have a jump threshold
\* and hold numbers only.
ThresholdArrays ==
    {f \in DOMAIN jump_thresholds :
        LET e == Reply(last.reply).fm[f]
        IN  e.present /\ e.list /\ Len(e.vals) > 1
            /\ \A i \in 1..Len(e.vals) : e.vals[i].k = "num"}

\* C25: in M3, Jump-Dynamics emits one field-level atom per array field that
\* has a threshold; the atom fails iff some adjacent-step change exceeds the
\* threshold, it reports the maximum adjacent-step change over the whole
\* array, and a failing atom is critical iff that maximum is more than twice
\* the threshold, else a warning.
C25_JumpFieldAtom ==
    (last.kind = "record" /\ last.task = "M3") =>
        \A f \in ThresholdArrays :
            LET max_change == MaxStepChange(f, Reply(last.reply).fm[f].vals)
            IN  /\ Cardinality(JumpAtoms(last.atoms, f)) = 1
                /\ \A i \in JumpAtoms(last.atoms, f) :
                       /\ last.atoms[i].pass_ = ~(max_change > jump_thresholds[f])
                       /\ last.atoms[i].m = [c |-> "fin", n |-> max_change]
                       /\ ~last.atoms[i].pass_ =>
                              last.atoms[i].severity
                                  = IF max_change > 2 * jump_thresholds[f]
                                    THEN "critical" ELSE "warning"

\* The same for a model that has a committed prediction for the field: the
\* atom fails iff some adjacent-step change exceeds the threshold.
C25_JumpFieldAtomFails ==
    [][(Evaluates /\ last'.task = "M3") =>
          \A f \in ThresholdArrays' :
              ~IsNone(previous_predictions[last'.model][f]) =>
                  /\ Cardinality(JumpAtoms(last'.atoms, f)) = 1
                  /\ \A i \in JumpAtoms(last'.atoms, f) :
                         last'.atoms[i].pass_
                             = ~(MaxStepChange(f, Reply(last'.reply).fm[f].vals)
                                     > jump_thresholds[f])]_vars

-----------------------------------------------------------------------------
\* Every judge() call makes at most max_retries LLM transport calls, and none
\* when the cache holds the key.
C26_CallsBounded ==
    judge_last.case # "" =>
        /\ judge_last.calls <= max_retries
        /\ judge_last.cached => judge_last.calls = 0

\* C26: every LLMJudge.judge call terminates having made at most max_retries
\* LLM transport calls - none when the cache holds the key - and always
\* returns a JudgeOutput, LLM-derived or fallback.
C26_JudgeReturns ==
    judge_last.case # "" =>
        /\ C26_CallsBounded
        /\ judge_last.output.kind = "output"

-----------------------------------------------------------------------------
\* The atoms a verifier produced, by the verifier ID in their evidence IDs.
VerifierAtoms(atoms, verifier_id) ==
    LET By(a) == a.id[1] = verifier_id IN SelectSeq(atoms, By)

\* C27: after organize_verification_workflow every checklist item - one per
\* verifier capability of the six-verifier graph - has status "fail" iff at
\* least one atom of the item's verifier failed, "pass" iff the verifier
\* produced atoms and all passed, "unknown" iff it produced none; and its
\* evidence_ids are exactly the IDs of that verifier's atoms.
C27_ChecklistStatus ==
    (last.kind = "record" /\ last.gate_called) =>
        /\ Len(last.checklist) = Len(verifiers)
        /\ \A i \in 1..Len(last.checklist) :
               LET produced == VerifierAtoms(last.atoms, verifiers[i])
                   failed == \E j \in 1..Len(produced) : ~produced[j].pass_
               IN  /\ last.checklist[i].status
                          = IF failed THEN "fail"
                            ELSE IF produced # <<>> THEN "pass" ELSE "unknown"
                   /\ last.checklist[i].evidence_ids
                          = [j \in 1..Len(produced) |-> produced[j].id]

\* The same for the four items other than Physics-Constraint and
\* Safety-Constraint.
C27_ChecklistStatusOfFour ==
    (last.kind = "record" /\ last.gate_called) =>
        /\ Len(last.checklist) = Len(verifiers)
        /\ \A i \in 1..Len(last.checklist) :
               verifiers[i] \notin {"PHYSICS_CONSTRAINT", "SAFETY_CONSTRAINT"} =>
                   LET produced == VerifierAtoms(last.atoms, verifiers[i])
                       failed == \E j \in 1..Len(produced) : ~produced[j].pass_
                   IN  /\ last.checklist[i].status
                              = IF failed THEN "fail"
                                ELSE IF produced # <<>> THEN "pass" ELSE "unknown"
                       /\ last.checklist[i].evidence_ids
                              = [j \in 1..Len(produced) |-> produced[j].id]

-----------------------------------------------------------------------------
\* C28: the fusion gate passes iff EvaluatorAgent.adjudicate returns
\* "eligible": no Record has adjudication "eligible" with gating_failed set,
\* nor "ineligible" without it.
C28_GateMatchesAdjudication ==
    last.kind = "record" =>
        /\ ~(last.adjudication = "eligible" /\ last.gating_failed)
        /\ ~(last.adjudication = "ineligible" /\ ~last.gating_failed)
        /\ last.gate_called => (last.adjudication = "eligible" <=> ~last.gating_failed)

\* A Record whose evidence holds a protocol failure - a failing
\* numeric_validity atom - and which is ineligible with gating_failed set.
C28_Witness ==
    /\ last.kind = "record"
    /\ last.gate_called
    /\ SelectSeq(last.atoms, IsProtocolFailure) # <<>>
    /\ last.adjudication = "ineligible"
    /\ last.gating_failed

\* A Record with a failing warning atom that is eligible and passed the gate.
C28_WitnessEligible ==
    /\ last.kind = "record"
    /\ last.gate_called
    /\ SelectSeq(last.atoms, IsWarningFailure) # <<>>
    /\ last.adjudication = "eligible"
    /\ ~last.gating_failed

-----------------------------------------------------------------------------
\* A failing physics continuity atom, and a failing jump_dynamics atom, of a field.
ContinuityFails(atoms, field) ==
    \E i \in 1..Len(atoms) :
        /\ atoms[i].type = "physics_constraint"
        /\ atoms[i].field = field \o "_continuity"
        /\ ~atoms[i].pass_

JumpFails(atoms, field) == \E i \in JumpAtoms(atoms, field) : ~atoms[i].pass_

\* The fields with a positive jump threshold.
ThresholdFields == {f \in DOMAIN jump_thresholds : jump_thresholds[f] > 0}

\* C29: for an M3 array field with a positive jump threshold T, the Physics
\* continuity check (limit 2 T) is never stricter than Jump-Dynamics (limit T):
\* whenever the physics continuity atom of a field fails, the jump_dynamics
\* atom of the same field fails too - angle fields across the 0/360 wrap
\* included.
C29_ContinuityNotStricter ==
    (last.kind = "record" /\ last.task = "M3") =>
        \A f \in ThresholdFields :
            ContinuityFails(last.atoms, f) => JumpFails(last.atoms, f)

\* The same for the fields of the set fs, in the samples of a model that has
\* a committed prediction for the field.
ContinuityNotStricterWithPrior(fs) ==
    (Evaluates /\ last'.task = "M3") =>
        \A f \in fs :
            (/\ ~IsNone(previous_predictions[last'.model][f])
             /\ ContinuityFails(last'.atoms, f)) => JumpFails(last'.atoms, f)

C29_NotStricterWithPrior == [][ContinuityNotStricterWithPrior(ThresholdFields)]_vars

C29_NotStricterWithPriorNoAngle ==
    [][ContinuityNotStricterWithPrior(ThresholdFields \ angle_fields)]_vars

-----------------------------------------------------------------------------
\* The place of a task in the order run_evaluation evaluates the tasks in.
TaskRank(task) == CASE task = "S1" -> 1 [] task = "M1" -> 2 [] OTHER -> 3

\* C30: when one evaluator evaluates several tasks in sequence, the first S1
\* or M1 sample of a model within a task - the sample before it being of an
\* earlier task - produces no jump_dynamics atoms: a prediction committed
\* while evaluating one task is never the prior of a sample of another task.
C30_NoCrossTaskPrior ==
    (/\ last.kind = "record" /\ last.task \in {"S1", "M1"}
     /\ prev.kind # "none" /\ TaskRank(prev.task) < TaskRank(last.task)) =>
        \A f \in Fields : JumpAtoms(last.atoms, f) = {}

\* The same when the sample before was of another model.
C30_NoCrossModelPrior ==
    (/\ last.kind = "record" /\ last.task \in {"S1", "M1"}
     /\ prev.kind # "none" /\ TaskRank(prev.task) < TaskRank(last.task)
     /\ prev.model # last.model /\ n_samples = 2) =>
        \A f \in Fields : JumpAtoms(last.atoms, f) = {}

====
